---- MODULE Spec2Model ----
(***************************************************************************)
(* Schemaful Cloud control plane: workspace lifecycle, membership roles    *)
(* and invitation lifecycle (apps/cloud/server/routers/workspaces.ts and   *)
(* the two REST creation handlers), over the three tables the handlers     *)
(* read and write.                                                         *)
(*                                                                         *)
(* Spec      runs every handler from request to response as one step       *)
(*           (requests served one after another).  The response of a       *)
(*           handler is the value of its ...Results operator; a rejected   *)
(*           request writes nothing and leaves the state as it is.         *)
(* SpecCreate runs the three creation entry points and delete alone, with  *)
(*           slugs of every shape as input.                                *)
(* SpecCreateRace, SpecInviteRace and SpecDeleteRace run the creation      *)
(*           handlers, the invitation handlers and delete one await at a   *)
(*           time, so that requests in flight interleave at every awaited  *)
(*           query.                                                        *)
(* SpecSlug  runs generateUniqueSlug one loop turn at a time; FairSpecSlug *)
(*           adds that every awaited select is answered.                   *)
(* SpecMemberRace runs the member and invitation procedures one await at   *)
(*           a time, each call counting its writes.                        *)
(* SpecRouter runs every procedure of the router, the queries included,    *)
(*           with and without a session.                                   *)
(* SpecSignupRace runs the two signup routes one await at a time.          *)
(* SpecUtils calls the exported functions of server/utils.ts on inputs     *)
(*           drawn from small sets; lastCall holds the last call and its   *)
(*           result.                                                       *)
(* SpecWebhook runs the two Stripe webhook routes.                         *)
(***************************************************************************)
EXTENDS Bags, FiniteSets, Integers, Sequences, TLC

\* ------------------------------------------------------------------------
\* Bounds of the model
\* ------------------------------------------------------------------------
\* number of workspace ids crypto.randomUUID() hands out
MaxWorkspaces == 1
\* number of invitation ids / tokens crypto.randomUUID() hands out
MaxInvitations == 2
\* the clock stops here (days)
MaxClock == 8

\* ------------------------------------------------------------------------
\* Values
\* ------------------------------------------------------------------------
\* an absent timestamp (acceptedAt: null)
NULL == 0 - 1
\* an absent row / an absent optional field
NoRow == [none |-> TRUE]
NoUser == [id |-> "anonymous", email |-> <<>>]
NoSlug == <<"(absent)">>
Undefined == "undefined"

MemberRole == {"owner", "admin", "editor", "viewer"}
\* z.enum(["admin", "editor", "viewer"]) of updateRole and invitations.create
InputRole == {"admin", "editor", "viewer"}

LowerLetters == {"a", "b", "c", "d", "e", "f", "g", "h", "i", "j", "k", "l", "m",
                 "n", "o", "p", "q", "r", "s", "t", "u", "v", "w", "x", "y", "z"}
Digits == {"0", "1", "2", "3", "4", "5", "6", "7", "8", "9"}

\* the upper-case letters that occur in the inputs, with their lower case
UpperToLower == [A |-> "a", B |-> "b", C |-> "c", M |-> "m"]

\* String.prototype.toLowerCase on a sequence of characters
toLowerCase(s) ==
  [i \in 1..Len(s) |-> IF s[i] \in DOMAIN UpperToLower THEN UpperToLower[s[i]] ELSE s[i]]

\* the signed-in users (ctx.user / session.user) and their cloudUsers rows;
\* the third account was created by the OAuth provider with a mixed-case email
Sessions ==
  { [id |-> "u1", email |-> <<"a", "@", "x">>],
    [id |-> "u2", email |-> <<"b", "@", "x">>],
    [id |-> "u3", email |-> <<"C", "@", "x">>] }
Callers == Sessions \cup {NoUser}
UserIds == {u.id : u \in Sessions}
cloudUsers == Sessions

\* emails typed into invitations.create
EmailInputs == { <<"B", "@", "x">>, <<"c", "@", "x">> }

\* workspace names and slugs typed into the creation forms
NameInputs == { <<"A", "c", "m", "e">> }
SlugInputs == { <<"a", "c", "m", "e">>, <<"a", "c", "m", "e", "-", "x", "1", "y", "2">> }
\* values of Math.random().toString(36).substring(2, 6)
Suffixes == { <<"x", "1", "y", "2">> }

WorkspaceIds == 1..MaxWorkspaces
InvitationIds == 1..MaxInvitations

\* ------------------------------------------------------------------------
\* State
\* ------------------------------------------------------------------------
VARIABLES
  workspaces,            \* table workspaces: set of rows (id is unique)
  workspaceMembers,      \* table workspace_members: bag of rows
  workspaceInvitations,  \* table workspace_invitations: set of rows (id is unique)
  now,                   \* new Date(), in days
  nextWorkspaceId,       \* next value of crypto.randomUUID() for a workspace
  nextInvitationId,      \* next value of crypto.randomUUID() for an invitation
  requests,              \* requests suspended at an await: bag of records
  assignedSlugs,         \* history: every slug a workspace row was ever inserted with
  accounts,              \* table cloud_users, the rows inserted by signup: bag of rows
  lastCall               \* the last call of a function of server/utils.ts or of a
                         \* webhook endpoint: its arguments and what came of it

vars == <<workspaces, workspaceMembers, workspaceInvitations, now,
          nextWorkspaceId, nextInvitationId, requests, assignedSlugs,
          accounts, lastCall>>

db == <<workspaces, workspaceMembers, workspaceInvitations>>

\* ------------------------------------------------------------------------
\* Program constants
\* ------------------------------------------------------------------------
\* generateUniqueSlug: const maxAttempts = 10
maxAttempts == 10
\* invitations.create: expiresAt = now + 7 * 24 * 60 * 60 * 1000 ms, in days
InviteTtl == 7
\* api/workspaces/index.ts
SLUG_MIN_LENGTH == 3
SLUG_MAX_LENGTH == 50
\* the amounts by which the clock advances between two requests (days)
TickSteps == {InviteTtl + 1}

RESERVED_SLUGS ==
  { <<"a","p","i">>, <<"a","d","m","i","n">>, <<"a","u","t","h">>, <<"a","p","p">>,
    <<"w","w","w">>, <<"m","a","i","l">>, <<"f","t","p">>, <<"n","e","w">>,
    <<"c","r","e","a","t","e">>, <<"s","e","t","t","i","n","g","s">>,
    <<"a","c","c","o","u","n","t">>, <<"b","i","l","l","i","n","g">>,
    <<"s","u","p","p","o","r","t">>, <<"h","e","l","p">>, <<"d","o","c","s">>,
    <<"d","o","c","u","m","e","n","t","a","t","i","o","n">>,
    <<"s","t","a","t","u","s">>, <<"h","e","a","l","t","h">>,
    <<"s","t","a","t","i","c">>, <<"a","s","s","e","t","s">>, <<"c","d","n">> }

\* ------------------------------------------------------------------------
\* Input validation (zod schemas)
\* ------------------------------------------------------------------------
\* /^[a-z0-9-]+$/
MatchesTrpcSlugRegex(s) ==
  /\ Len(s) >= 1
  /\ \A i \in 1..Len(s) : s[i] \in LowerLetters \cup Digits \cup {"-"}

\* SLUG_PATTERN = /^[a-z][a-z0-9-]*[a-z0-9]$/
MatchesSlugPattern(s) ==
  /\ Len(s) >= 2
  /\ s[1] \in LowerLetters
  /\ s[Len(s)] \in LowerLetters \cup Digits
  /\ \A i \in 2..(Len(s) - 1) : s[i] \in LowerLetters \cup Digits \cup {"-"}

\* slug.includes("--")
IncludesDoubleHyphen(s) ==
  \E i \in 1..(Len(s) - 1) : s[i] = "-" /\ s[i + 1] = "-"

\* workspacesRouter.create .input(): name 1..255, optional slug 1..100 matching the regex
TrpcCreateInputValid(name, slug) ==
  /\ Len(name) >= 1 /\ Len(name) <= 255
  /\ slug # NoSlug => (Len(slug) >= 1 /\ Len(slug) <= 100 /\ MatchesTrpcSlugRegex(slug))

\* createWorkspaceSchema of the Vercel route
VercelCreateInputValid(name, slug) ==
  /\ Len(name) >= 1 /\ Len(name) <= 100
  /\ Len(slug) >= SLUG_MIN_LENGTH /\ Len(slug) <= SLUG_MAX_LENGTH
  /\ MatchesSlugPattern(slug)
  /\ ~IncludesDoubleHyphen(slug)
  /\ slug \notin RESERVED_SLUGS

\* createWorkspaceSchema of the Express route
ExpressCreateInputValid(name, slug) ==
  /\ Len(name) >= 1 /\ Len(name) <= 100
  /\ Len(slug) >= 3 /\ Len(slug) <= 50
  /\ MatchesSlugPattern(slug)

\* ------------------------------------------------------------------------
\* slugify (@schemaful/shared), as the specification describes it:
\* lower-case, strip characters outside [a-z0-9 space hyphen], spaces to
\* hyphens, collapse repeated hyphens, trim leading and trailing hyphens
\* ------------------------------------------------------------------------
RECURSIVE CollapseHyphens(_)
CollapseHyphens(s) ==
  IF Len(s) < 2 THEN s
  ELSE IF s[1] = "-" /\ s[2] = "-" THEN CollapseHyphens(Tail(s))
  ELSE <<s[1]>> \o CollapseHyphens(Tail(s))

RECURSIVE TrimHyphens(_)
TrimHyphens(s) ==
  IF Len(s) = 0 THEN s
  ELSE IF s[1] = "-" THEN TrimHyphens(Tail(s))
  ELSE IF s[Len(s)] = "-" THEN TrimHyphens(SubSeq(s, 1, Len(s) - 1))
  ELSE s

slugify(name) ==
  LET lower == toLowerCase(name)
      kept == SelectSeq(lower, LAMBDA c : c \in LowerLetters \cup Digits \cup {" ", "-"})
      hyph == [i \in 1..Len(kept) |-> IF kept[i] = " " THEN "-" ELSE kept[i]]
  IN TrimHyphens(CollapseHyphens(hyph))

\* ------------------------------------------------------------------------
\* Queries
\* ------------------------------------------------------------------------
\* the possible results of the limit(1) query: a matching row, or none
getWorkspaceMembership(members, workspaceId, userId) ==
  LET found == {m \in BagToSet(members) : m.workspaceId = workspaceId /\ m.userId = userId}
  IN IF found = {} THEN {NoRow} ELSE found

\* a slip: every member passes the admin-or-owner check
isAdminOrOwner_everyMember(role) == role \in MemberRole

isAdminOrOwner(role) == role = "owner" \/ role = "admin"

\* a slip: the owner is not recognised
isOwner_never(role) == FALSE

isOwner(role) == role = "owner"

\* a slip: the probe finds no row whatever is stored
SlugTaken_never(ws, slug) == FALSE

\* select from workspaces where slug = ... limit 1
SlugTaken(ws, slug) == \E w \in ws : w.slug = slug

\* select from workspaces where id = ... limit 1
WorkspaceById(ws, id) ==
  LET found == {w \in ws : w.id = id} IN IF found = {} THEN {NoRow} ELSE found

\* select from cloudUsers where email = ... limit 1
UserByEmail(email) ==
  LET found == {u \in cloudUsers : u.email = email} IN IF found = {} THEN {NoRow} ELSE found

\* a slip: only pending invitations are looked at
InvitationFor_pendingOnly(invs, workspaceId, email) ==
  LET found == {i \in invs : /\ i.workspaceId = workspaceId /\ i.email = email
                              /\ i.acceptedAt = NULL /\ i.expiresAt >= now}
  IN IF found = {} THEN {NoRow} ELSE found

\* select from workspaceInvitations where workspaceId = ... and email = ... limit 1
InvitationFor(invs, workspaceId, email) ==
  LET found == {i \in invs : i.workspaceId = workspaceId /\ i.email = email}
  IN IF found = {} THEN {NoRow} ELSE found

\* select from workspaceInvitations where id = ... and workspaceId = ... limit 1
InvitationById(invs, invitationId, workspaceId) ==
  LET found == {i \in invs : i.id = invitationId /\ i.workspaceId = workspaceId}
  IN IF found = {} THEN {NoRow} ELSE found

\* select from workspaceInvitations where token = ... limit 1
InvitationByToken(invs, token) ==
  LET found == {i \in invs : i.token = token} IN IF found = {} THEN {NoRow} ELSE found

\* ------------------------------------------------------------------------
\* Writes to workspace_members
\* ------------------------------------------------------------------------
InsertMember(members, row) == members (+) SetToBag({row})

\* where workspaceId = ... and userId = ...
MembershipRows(members, workspaceId, userId) ==
  {m \in DOMAIN members : m.workspaceId = workspaceId /\ m.userId = userId}

\* where workspaceId = ...
WorkspaceMemberRows(members, workspaceId) ==
  {m \in DOMAIN members : m.workspaceId = workspaceId}

\* delete from workspace_members where ... (rows: the rows the condition selects)
DeleteMembers(members, rows) ==
  [m \in DOMAIN members \ rows |-> members[m]]

RECURSIVE SumCopies(_, _)
SumCopies(members, rows) ==
  IF rows = {} THEN 0
  ELSE LET r == CHOOSE x \in rows : TRUE
       IN members[r] + SumCopies(members, rows \ {r})

\* update workspace_members set role = ..., updatedAt = ... where ...
UpdateMembers(members, rows, role, date) ==
  LET G(m) == IF m \in rows THEN [m EXCEPT !.role = role, !.updatedAt = date] ELSE m
      image == {G(m) : m \in DOMAIN members}
  IN [n \in image |-> SumCopies(members, {m \in DOMAIN members : G(m) = n})]

\* ------------------------------------------------------------------------
\* generateUniqueSlug: the slugs it can return for the draws of Math.random,
\* "Error" when the ten probes all hit a stored slug
\* ------------------------------------------------------------------------
RECURSIVE generateUniqueSlugFrom(_, _, _, _)
generateUniqueSlugFrom(ws, baseSlug, slug, attempts) ==
  IF ~(attempts < maxAttempts) THEN {<<"Error">>}
  ELSE IF ~SlugTaken(ws, slug) THEN {slug}
  ELSE UNION { generateUniqueSlugFrom(ws, baseSlug, baseSlug \o <<"-">> \o suffix, attempts + 1)
               : suffix \in Suffixes }

generateUniqueSlug(ws, name) == generateUniqueSlugFrom(ws, slugify(name), slugify(name), 0)


\* ------------------------------------------------------------------------
\* Responses
\* ------------------------------------------------------------------------
\* a thrown TRPCError (code, message) or a REST error response (status, error)
Err(code, msg) == [code |-> code, msg |-> msg]

\* isAuthenticated middleware of protectedProc
UNAUTHORIZED == Err("UNAUTHORIZED", "You must be logged in to perform this action")

Codes(results) == {r.code : r \in results}

\* a slip: the middleware lets every call through
isAuthenticated_everyone(user) == TRUE

\* isAuthenticated middleware: if (!ctx.user) throw UNAUTHORIZED
isAuthenticated(user) == user # NoUser

\* updateRole: "Admins can't promote to admin (only owner can)"
\* invitations.create: "Admins can't invite admins (only owners can)"
\* a slip: the check is missing
AdminGrantsAdmin_missing(callerRole, inputRole) == FALSE

\* a slip: the check forgets to look at the caller's role
AdminGrantsAdmin_anyCaller(callerRole, inputRole) == inputRole = "admin"

AdminGrantsAdmin(callerRole, inputRole) == callerRole = "admin" /\ inputRole = "admin"

\* remove: "Admins can only remove editors/viewers, not other admins"
\* a slip: the check is missing
AdminRemovesAdmin_missing(callerRole, targetRole) == FALSE

AdminRemovesAdmin(callerRole, targetRole) == callerRole = "admin" /\ targetRole = "admin"

\* accept: invitation.expiresAt < new Date()
HasExpired(invitation, date) == invitation.expiresAt < date

\* accept: if (invitation.acceptedAt)
\* a slip: the check is missing
AlreadyAccepted_missing(invitation) == FALSE

AlreadyAccepted(invitation) == invitation.acceptedAt # NULL

\* a slip: the check is missing
EmailMismatch_missing(invitation, user) == FALSE

\* accept: invitation.email.toLowerCase() !== ctx.user.email.toLowerCase()
EmailMismatch(invitation, user) == toLowerCase(invitation.email) # toLowerCase(user.email)

\* ------------------------------------------------------------------------
\* workspaces.create (tRPC)
\* ------------------------------------------------------------------------
\* settings: {}
NoSettings == {}

WorkspaceRow(id, name, slug, stripeCustomerId) ==
  [id |-> id, name |-> name, slug |-> slug, stripeCustomerId |-> stripeCustomerId,
   settings |-> NoSettings, createdAt |-> now, updatedAt |-> now]

MemberRow(workspaceId, userId, role, date) ==
  [workspaceId |-> workspaceId, userId |-> userId, role |-> role,
   createdAt |-> date, updatedAt |-> date]

\* a slip: the result of provisionDatabase is not looked at
ProvisionFailed_ignored(provisionOk) == FALSE

\* !provisionResult.success
ProvisionFailed(provisionOk) == ~provisionOk

\* a slip: the id is set although createCustomer threw
StripeCustomerId_setOnFailure(createStripeCustomer, email, customerOk) ==
  IF createStripeCustomer /\ Len(email) > 0 THEN "cus" ELSE Undefined

\* let stripeCustomerId; if (input.createStripeCustomer && ctx.user.email)
\* try { stripeCustomerId = await createCustomer(...) } catch { console.error }
StripeCustomerId(createStripeCustomer, email, customerOk) ==
  IF createStripeCustomer /\ Len(email) > 0 /\ customerOk THEN "cus" ELSE Undefined

\* the checks of the handler, in order; an OK result carries the slug to store
createResults(ws, user, name, inputSlug, provisionOk) ==
  IF ~isAuthenticated(user) THEN {UNAUTHORIZED}
  ELSE IF ~TrpcCreateInputValid(name, inputSlug)
  THEN {Err("BAD_REQUEST", "Slug must be lowercase alphanumeric with hyphens only")}
  ELSE
    { IF slug = <<"Error">>
      THEN Err("INTERNAL_SERVER_ERROR",
               "Could not generate a unique slug after multiple attempts")
      ELSE IF SlugTaken(ws, slug)
      THEN Err("CONFLICT", "Workspace slug is already taken")
      ELSE IF ProvisionFailed(provisionOk)
      THEN Err("INTERNAL_SERVER_ERROR", "Failed to provision database")
      ELSE [code |-> "OK", msg |-> "owner", slug |-> slug]
      : slug \in (IF inputSlug # NoSlug THEN {inputSlug} ELSE generateUniqueSlug(ws, name)) }

create(user, name, inputSlug, createStripeCustomer, provisionOk, customerOk) ==
  \E r \in createResults(workspaces, user, name, inputSlug, provisionOk) :
    IF r.code # "OK" THEN UNCHANGED vars
    ELSE
      LET workspaceId == nextWorkspaceId
          stripeCustomerId == StripeCustomerId(createStripeCustomer, user.email, customerOk)
      IN /\ nextWorkspaceId' = nextWorkspaceId + 1
         /\ workspaces' = workspaces \cup {WorkspaceRow(workspaceId, name, r.slug, stripeCustomerId)}
         /\ assignedSlugs' = assignedSlugs \cup {r.slug}
         /\ workspaceMembers' =
              InsertMember(workspaceMembers, MemberRow(workspaceId, user.id, "owner", now))
         /\ UNCHANGED <<accounts, lastCall, requests, workspaceInvitations, now, nextInvitationId>>

\* ------------------------------------------------------------------------
\* POST /api/workspaces (Vercel route and Express route)
\* ------------------------------------------------------------------------
restCreateResults(ws, valid, user, slug, neonApiKey, provisionOk) ==
  IF user = NoUser THEN {Err("401", "Authentication required")}
  ELSE IF ~valid THEN {Err("400", "Validation failed")}
  ELSE IF SlugTaken(ws, slug) THEN {Err("409", "This workspace URL is already taken")}
  ELSE IF neonApiKey /\ ProvisionFailed(provisionOk)
  THEN {Err("500", "Failed to provision database. Please try again.")}
  ELSE {[code |-> "201", msg |-> "success", slug |-> slug]}

restCreate(valid, user, name, slug, neonApiKey, provisionOk) ==
  \E r \in restCreateResults(workspaces, valid, user, slug, neonApiKey, provisionOk) :
    IF r.code # "201" THEN UNCHANGED vars
    ELSE
      LET workspaceId == nextWorkspaceId IN
      /\ nextWorkspaceId' = nextWorkspaceId + 1
      /\ workspaces' = workspaces \cup {WorkspaceRow(workspaceId, name, r.slug, Undefined)}
      /\ assignedSlugs' = assignedSlugs \cup {r.slug}
      /\ workspaceMembers' =
           InsertMember(workspaceMembers, MemberRow(workspaceId, user.id, "owner", now))
      /\ UNCHANGED <<accounts, lastCall, requests, workspaceInvitations, now, nextInvitationId>>

handleCreateWorkspace(user, name, slug, neonApiKey, provisionOk) ==
  restCreate(VercelCreateInputValid(name, slug), user, name, slug, neonApiKey, provisionOk)

expressCreateWorkspace(user, name, slug, neonApiKey, provisionOk) ==
  restCreate(ExpressCreateInputValid(name, slug), user, name, slug, neonApiKey, provisionOk)

\* ------------------------------------------------------------------------
\* workspaces.delete
\* ------------------------------------------------------------------------
deleteResults(ws, members, user, id) ==
  IF ~isAuthenticated(user) THEN {UNAUTHORIZED}
  ELSE UNION {
    IF workspace = NoRow THEN {Err("NOT_FOUND", "Workspace not found")}
    ELSE { IF membership = NoRow \/ ~isOwner(membership.role)
           THEN Err("FORBIDDEN", "Only the workspace owner can delete it")
           ELSE Err("OK", "success")
           : membership \in getWorkspaceMembership(members, workspace.id, user.id) }
    : workspace \in WorkspaceById(ws, id) }

delete(user, id) ==
  \E r \in deleteResults(workspaces, workspaceMembers, user, id) :
    IF r.code # "OK" THEN UNCHANGED vars
    ELSE
      /\ workspaceInvitations' = {i \in workspaceInvitations : i.workspaceId # id}
      /\ workspaceMembers' = DeleteMembers(workspaceMembers, WorkspaceMemberRows(workspaceMembers, id))
      /\ workspaces' = {w \in workspaces : w.id # id}
      /\ UNCHANGED <<accounts, lastCall, assignedSlugs, requests, now, nextWorkspaceId, nextInvitationId>>

\* ------------------------------------------------------------------------
\* members.updateRole, members.remove, members.leave
\* ------------------------------------------------------------------------
\* a slip: the check is missing
TargetsSelf_missing(userId, user) == FALSE

\* input.userId === ctx.user.id
TargetsSelf(userId, user) == userId = user.id

updateRoleResults(members, user, workspaceId, userId, role) ==
  IF ~isAuthenticated(user) THEN {UNAUTHORIZED}
  ELSE UNION {
    IF currentMembership = NoRow \/ ~isAdminOrOwner(currentMembership.role)
    THEN {Err("FORBIDDEN", "Only admins or owners can change member roles")}
    ELSE IF TargetsSelf(userId, user)
    THEN {Err("BAD_REQUEST", "You cannot change your own role")}
    ELSE { IF targetMembership = NoRow THEN Err("NOT_FOUND", "Member not found")
           ELSE IF isOwner(targetMembership.role)
           THEN Err("FORBIDDEN", "Cannot change the owner's role")
           ELSE IF AdminGrantsAdmin(currentMembership.role, role)
           THEN Err("FORBIDDEN", "Only owners can promote members to admin")
           ELSE Err("OK", "success")
           : targetMembership \in getWorkspaceMembership(members, workspaceId, userId) }
    : currentMembership \in getWorkspaceMembership(members, workspaceId, user.id) }

members_updateRole(user, workspaceId, userId, role) ==
  \E r \in updateRoleResults(workspaceMembers, user, workspaceId, userId, role) :
    IF r.code # "OK" THEN UNCHANGED vars
    ELSE
      /\ workspaceMembers' =
           UpdateMembers(workspaceMembers,
                         MembershipRows(workspaceMembers, workspaceId, userId), role, now)
      /\ UNCHANGED <<accounts, lastCall, assignedSlugs, requests, workspaces, workspaceInvitations, now, nextWorkspaceId, nextInvitationId>>

removeResults(members, user, workspaceId, userId) ==
  IF ~isAuthenticated(user) THEN {UNAUTHORIZED}
  ELSE UNION {
    IF currentMembership = NoRow \/ ~isAdminOrOwner(currentMembership.role)
    THEN {Err("FORBIDDEN", "Only admins or owners can remove members")}
    ELSE IF TargetsSelf(userId, user)
    THEN {Err("BAD_REQUEST", "You cannot remove yourself. Transfer ownership first.")}
    ELSE { IF targetMembership = NoRow THEN Err("NOT_FOUND", "Member not found")
           ELSE IF isOwner(targetMembership.role)
           THEN Err("FORBIDDEN", "Cannot remove the workspace owner")
           ELSE IF AdminRemovesAdmin(currentMembership.role, targetMembership.role)
           THEN Err("FORBIDDEN", "Admins cannot remove other admins")
           ELSE Err("OK", "success")
           : targetMembership \in getWorkspaceMembership(members, workspaceId, userId) }
    : currentMembership \in getWorkspaceMembership(members, workspaceId, user.id) }

members_remove(user, workspaceId, userId) ==
  \E r \in removeResults(workspaceMembers, user, workspaceId, userId) :
    IF r.code # "OK" THEN UNCHANGED vars
    ELSE
      /\ workspaceMembers' =
           DeleteMembers(workspaceMembers,
                         MembershipRows(workspaceMembers, workspaceId, userId))
      /\ UNCHANGED <<accounts, lastCall, assignedSlugs, requests, workspaces, workspaceInvitations, now, nextWorkspaceId, nextInvitationId>>

leaveResults(members, user, workspaceId) ==
  IF ~isAuthenticated(user) THEN {UNAUTHORIZED}
  ELSE { IF membership = NoRow
         THEN Err("FORBIDDEN", "You are not a member of this workspace")
         ELSE IF isOwner(membership.role)
         THEN Err("FORBIDDEN", "Owners cannot leave the workspace.")
         ELSE Err("OK", "success")
         : membership \in getWorkspaceMembership(members, workspaceId, user.id) }

members_leave(user, workspaceId) ==
  \E r \in leaveResults(workspaceMembers, user, workspaceId) :
    IF r.code # "OK" THEN UNCHANGED vars
    ELSE
      /\ workspaceMembers' =
           DeleteMembers(workspaceMembers,
                         MembershipRows(workspaceMembers, workspaceId, user.id))
      /\ UNCHANGED <<accounts, lastCall, assignedSlugs, requests, workspaces, workspaceInvitations, now, nextWorkspaceId, nextInvitationId>>

\* ------------------------------------------------------------------------
\* invitations.create, invitations.revoke, invitations.accept
\* ------------------------------------------------------------------------
InvitationRow(id, workspaceId, email, role, token, invitedBy, date) ==
  [id |-> id, workspaceId |-> workspaceId, email |-> email, role |-> role,
   token |-> token, invitedBy |-> invitedBy, expiresAt |-> date + InviteTtl,
   createdAt |-> date, acceptedAt |-> NULL]

\* "Check if user is already a member": the cloudUsers row with the lower-cased
\* email, and then that user's membership
InviteeIsMember(members, workspaceId, email) ==
  \E existingUser \in UserByEmail(toLowerCase(email)) :
    /\ existingUser # NoRow
    /\ getWorkspaceMembership(members, workspaceId, existingUser.id) # {NoRow}

inviteResults(members, invs, user, workspaceId, email, role) ==
  IF ~isAuthenticated(user) THEN {UNAUTHORIZED}
  ELSE { IF membership = NoRow \/ ~isAdminOrOwner(membership.role)
         THEN Err("FORBIDDEN", "Only admins or owners can create invitations")
         ELSE IF AdminGrantsAdmin(membership.role, role)
         THEN Err("FORBIDDEN", "Only owners can invite admins")
         ELSE IF InviteeIsMember(members, workspaceId, email)
         THEN Err("CONFLICT", "User is already a member of this workspace")
         ELSE IF InvitationFor(invs, workspaceId, toLowerCase(email)) # {NoRow}
         THEN Err("CONFLICT", "An invitation has already been sent to this email")
         ELSE Err("OK", "invitation")
         : membership \in getWorkspaceMembership(members, workspaceId, user.id) }

invitations_create(user, workspaceId, email, role) ==
  \E r \in inviteResults(workspaceMembers, workspaceInvitations, user, workspaceId, email, role) :
    IF r.code # "OK" THEN UNCHANGED vars
    ELSE
      /\ nextInvitationId <= MaxInvitations
      /\ nextInvitationId' = nextInvitationId + 1
      /\ workspaceInvitations' = workspaceInvitations \cup
           {InvitationRow(nextInvitationId, workspaceId, toLowerCase(email), role,
                          nextInvitationId, user.id, now)}
      /\ UNCHANGED <<accounts, lastCall, assignedSlugs, requests, workspaces, workspaceMembers, now, nextWorkspaceId>>

revokeResults(members, invs, user, workspaceId, invitationId) ==
  IF ~isAuthenticated(user) THEN {UNAUTHORIZED}
  ELSE UNION {
    IF membership = NoRow \/ ~isAdminOrOwner(membership.role)
    THEN {Err("FORBIDDEN", "Only admins or owners can revoke invitations")}
    ELSE { IF invitation = NoRow THEN Err("NOT_FOUND", "Invitation not found")
           ELSE Err("OK", "success")
           : invitation \in InvitationById(invs, invitationId, workspaceId) }
    : membership \in getWorkspaceMembership(members, workspaceId, user.id) }

invitations_revoke(user, workspaceId, invitationId) ==
  \E r \in revokeResults(workspaceMembers, workspaceInvitations, user, workspaceId, invitationId) :
    IF r.code # "OK" THEN UNCHANGED vars
    ELSE
      /\ workspaceInvitations' = {i \in workspaceInvitations : i.id # invitationId}
      /\ UNCHANGED <<accounts, lastCall, assignedSlugs, requests, workspaces, workspaceMembers, now, nextWorkspaceId, nextInvitationId>>

\* a slip: the update has no where clause
MarkAccepted_everyRow(invs, id, date) == {[i EXCEPT !.acceptedAt = date] : i \in invs}

\* update workspaceInvitations set acceptedAt = ... where id = ...
MarkAccepted(invs, id, date) ==
  {IF i.id = id THEN [i EXCEPT !.acceptedAt = date] ELSE i : i \in invs}

\* an OK result carries the invitation row that was read
acceptResults(members, invs, date, user, token) ==
  IF ~isAuthenticated(user) THEN {UNAUTHORIZED}
  ELSE { IF invitation = NoRow THEN Err("NOT_FOUND", "Invitation not found")
         ELSE IF HasExpired(invitation, date)
         THEN Err("BAD_REQUEST", "Invitation has expired")
         ELSE IF AlreadyAccepted(invitation)
         THEN Err("BAD_REQUEST", "Invitation has already been accepted")
         ELSE IF EmailMismatch(invitation, user)
         THEN Err("FORBIDDEN", "This invitation was sent to a different email address")
         ELSE IF getWorkspaceMembership(members, invitation.workspaceId, user.id) # {NoRow}
         THEN Err("CONFLICT", "You are already a member of this workspace")
         ELSE [code |-> "OK", msg |-> "success", invitation |-> invitation]
         : invitation \in InvitationByToken(invs, token) }

invitations_accept(user, token) ==
  \E r \in acceptResults(workspaceMembers, workspaceInvitations, now, user, token) :
    IF r.code # "OK" THEN UNCHANGED vars
    ELSE
      /\ workspaceMembers' =
           InsertMember(workspaceMembers,
                        MemberRow(r.invitation.workspaceId, user.id, r.invitation.role, now))
      /\ workspaceInvitations' = MarkAccepted(workspaceInvitations, r.invitation.id, now)
      /\ UNCHANGED <<accounts, lastCall, assignedSlugs, requests, workspaces, now, nextWorkspaceId, nextInvitationId>>

\* ------------------------------------------------------------------------
\* workspaces.update, and the queries of the router
\* ------------------------------------------------------------------------
\* input.name and input.settings left out of the input
NoName == <<"(absent)">>
NoId == 0
NoSettingsInput == {<<"(absent)", "">>}

\* { ...workspace.settings, ...input.settings }, a settings map as a set of
\* <<key, value>> pairs
MergeSettings(settings, input) ==
  input \cup {kv \in settings : \A kv2 \in input : kv2[1] # kv[1]}

updateResults(ws, members, user, id) ==
  IF ~isAuthenticated(user) THEN {UNAUTHORIZED}
  ELSE UNION {
    IF workspace = NoRow THEN {Err("NOT_FOUND", "Workspace not found")}
    ELSE { IF membership = NoRow \/ ~isAdminOrOwner(membership.role)
           THEN Err("FORBIDDEN", "You must be an admin or owner to update this workspace")
           ELSE Err("OK", "success")
           : membership \in getWorkspaceMembership(members, workspace.id, user.id) }
    : workspace \in WorkspaceById(ws, id) }

workspaces_update(user, id, name, settings) ==
  \E r \in updateResults(workspaces, workspaceMembers, user, id) :
    IF r.code # "OK" THEN UNCHANGED vars
    ELSE
      /\ workspaces' =
           { IF w.id = id
             THEN [w EXCEPT !.updatedAt = now,
                            !.name = IF name # NoName THEN name ELSE @,
                            !.settings = IF settings # NoSettingsInput
                                         THEN MergeSettings(@, settings) ELSE @]
             ELSE w : w \in workspaces }
      /\ UNCHANGED <<accounts, lastCall, assignedSlugs, requests, workspaceMembers, workspaceInvitations, now,
                     nextWorkspaceId, nextInvitationId>>

\* workspaces.list: the caller's workspaces, possibly none
listResults(user) ==
  IF ~isAuthenticated(user) THEN {UNAUTHORIZED} ELSE {Err("OK", "success")}

\* workspaces.get by id, or by slug when no id is given
getResults(ws, members, user, slug, id) ==
  IF ~isAuthenticated(user) THEN {UNAUTHORIZED}
  ELSE IF slug = NoSlug /\ id = NoId
  THEN {Err("BAD_REQUEST", "Either slug or id is required")}
  ELSE LET found == IF id # NoId THEN {w \in ws : w.id = id} ELSE {w \in ws : w.slug = slug}
       IN IF found = {} THEN {Err("NOT_FOUND", "Workspace not found")}
          ELSE { IF getWorkspaceMembership(members, workspace.id, user.id) = {NoRow}
                 THEN Err("FORBIDDEN", "You are not a member of this workspace")
                 ELSE Err("OK", "success")
                 : workspace \in found }

\* workspaces.getStats
getStatsResults(ws, members, user, id) ==
  IF ~isAuthenticated(user) THEN {UNAUTHORIZED}
  ELSE { IF workspace = NoRow THEN Err("NOT_FOUND", "Workspace not found")
         ELSE IF getWorkspaceMembership(members, workspace.id, user.id) = {NoRow}
         THEN Err("FORBIDDEN", "You are not a member of this workspace")
         ELSE Err("OK", "success")
         : workspace \in WorkspaceById(ws, id) }

\* members.list
membersListResults(members, user, workspaceId) ==
  IF ~isAuthenticated(user) THEN {UNAUTHORIZED}
  ELSE IF getWorkspaceMembership(members, workspaceId, user.id) = {NoRow}
  THEN {Err("FORBIDDEN", "You are not a member of this workspace")}
  ELSE {Err("OK", "success")}

\* invitations.list
invitationsListResults(members, user, workspaceId) ==
  IF ~isAuthenticated(user) THEN {UNAUTHORIZED}
  ELSE { IF membership = NoRow \/ ~isAdminOrOwner(membership.role)
         THEN Err("FORBIDDEN", "Only admins or owners can view invitations")
         ELSE Err("OK", "success")
         : membership \in getWorkspaceMembership(members, workspaceId, user.id) }

\* invitations.getByToken: t.procedure, no middleware; the invitation row
\* inner-joined with its workspace row
getByTokenResults(ws, invs, token) ==
  LET found == {i \in invs : i.token = token /\ \E w \in ws : w.id = i.workspaceId}
  IN IF found = {} THEN {Err("NOT_FOUND", "Invitation not found")}
     ELSE {[code |-> "OK", msg |-> "success", invitation |-> i] : i \in found}

\* a query answers and writes nothing
Query(results) == results # {} /\ UNCHANGED vars

workspaces_list(user) == Query(listResults(user))

workspaces_get(user, slug, id) ==
  Query(getResults(workspaces, workspaceMembers, user, slug, id))

workspaces_getStats(user, id) == Query(getStatsResults(workspaces, workspaceMembers, user, id))

members_list(user, workspaceId) == Query(membersListResults(workspaceMembers, user, workspaceId))

invitations_list(user, workspaceId) ==
  Query(invitationsListResults(workspaceMembers, user, workspaceId))

invitations_getByToken(token) ==
  Query(getByTokenResults(workspaces, workspaceInvitations, token))

\* ------------------------------------------------------------------------
\* Time passes between requests
\* ------------------------------------------------------------------------
Tick ==
  /\ \E d \in TickSteps : now + d <= MaxClock /\ now' = now + d
  /\ UNCHANGED <<accounts, lastCall, assignedSlugs, requests, workspaces, workspaceMembers, workspaceInvitations,
                 nextWorkspaceId, nextInvitationId>>

\* ------------------------------------------------------------------------
\* Specification: requests served one after another
\* ------------------------------------------------------------------------
\* no utility function has been called yet
NoCall == [fn |-> "(none)"]

Init ==
  /\ workspaces = {}
  /\ workspaceMembers = EmptyBag
  /\ workspaceInvitations = {}
  /\ now = 0
  /\ nextWorkspaceId = 1
  /\ nextInvitationId = 1
  /\ requests = EmptyBag
  /\ assignedSlugs = {}
  /\ accounts = EmptyBag
  /\ lastCall = NoCall

CreateStep ==
  /\ nextWorkspaceId <= MaxWorkspaces
  /\ \E user \in Callers, name \in NameInputs, inputSlug \in SlugInputs \cup {NoSlug},
        createStripeCustomer \in BOOLEAN, provisionOk \in BOOLEAN, customerOk \in BOOLEAN :
       create(user, name, inputSlug, createStripeCustomer, provisionOk, customerOk)

VercelCreateStep ==
  /\ nextWorkspaceId <= MaxWorkspaces
  /\ \E user \in Callers, name \in NameInputs, slug \in SlugInputs,
        neonApiKey \in BOOLEAN, provisionOk \in BOOLEAN :
       handleCreateWorkspace(user, name, slug, neonApiKey, provisionOk)

ExpressCreateStep ==
  /\ nextWorkspaceId <= MaxWorkspaces
  /\ \E user \in Callers, name \in NameInputs, slug \in SlugInputs,
        neonApiKey \in BOOLEAN, provisionOk \in BOOLEAN :
       expressCreateWorkspace(user, name, slug, neonApiKey, provisionOk)

DeleteStep == \E user \in Callers, id \in WorkspaceIds : delete(user, id)

UpdateRoleStep ==
  \E user \in Callers, workspaceId \in WorkspaceIds, userId \in UserIds, role \in InputRole :
    members_updateRole(user, workspaceId, userId, role)

RemoveStep ==
  \E user \in Callers, workspaceId \in WorkspaceIds, userId \in UserIds :
    members_remove(user, workspaceId, userId)

LeaveStep == \E user \in Callers, workspaceId \in WorkspaceIds : members_leave(user, workspaceId)

InviteStep ==
  \E user \in Callers, workspaceId \in WorkspaceIds, email \in EmailInputs, role \in InputRole :
    invitations_create(user, workspaceId, email, role)

RevokeStep ==
  \E user \in Callers, workspaceId \in WorkspaceIds, invitationId \in InvitationIds :
    invitations_revoke(user, workspaceId, invitationId)

AcceptStep == \E user \in Callers, token \in InvitationIds : invitations_accept(user, token)

Next ==
  \/ CreateStep
  \/ VercelCreateStep
  \/ ExpressCreateStep
  \/ DeleteStep
  \/ UpdateRoleStep
  \/ RemoveStep
  \/ LeaveStep
  \/ InviteStep
  \/ RevokeStep
  \/ AcceptStep
  \/ Tick

Spec == Init /\ [][Next]_vars

\* ------------------------------------------------------------------------
\* Specification: the creation entry points and delete alone, served one
\* after another, with slugs of every shape typed into the forms
\* ------------------------------------------------------------------------
MaxCreated == 3

CreatedIds == 1..MaxCreated

CreateCallers == {u \in Callers : u.id \in {"u1", "anonymous"}}

\* one character more than SLUG_MAX_LENGTH
LongSlug == [k \in 1..(SLUG_MAX_LENGTH + 1) |-> "a"]

CreateSlugInputs ==
  { <<"a", "c", "m", "e">>, <<"a", "p", "i">>, <<"a", "-", "-", "b">>,
    <<"9", "a", "b">>, <<"a", "b">>, LongSlug }

TrpcCreation ==
  /\ nextWorkspaceId <= MaxCreated
  /\ \E user \in CreateCallers, name \in NameInputs, inputSlug \in CreateSlugInputs \cup {NoSlug},
        createStripeCustomer \in BOOLEAN, provisionOk \in BOOLEAN, customerOk \in BOOLEAN :
       create(user, name, inputSlug, createStripeCustomer, provisionOk, customerOk)

VercelCreation ==
  /\ nextWorkspaceId <= MaxCreated
  /\ \E user \in CreateCallers, name \in NameInputs, slug \in CreateSlugInputs,
        neonApiKey \in BOOLEAN, provisionOk \in BOOLEAN :
       handleCreateWorkspace(user, name, slug, neonApiKey, provisionOk)

ExpressCreation ==
  /\ nextWorkspaceId <= MaxCreated
  /\ \E user \in CreateCallers, name \in NameInputs, slug \in CreateSlugInputs,
        neonApiKey \in BOOLEAN, provisionOk \in BOOLEAN :
       expressCreateWorkspace(user, name, slug, neonApiKey, provisionOk)

Deletion == \E user \in CreateCallers, id \in CreatedIds : delete(user, id)

NextCreate == TrpcCreation \/ VercelCreation \/ ExpressCreation \/ Deletion

SpecCreate == Init /\ [][NextCreate]_vars

\* ------------------------------------------------------------------------
\* The handlers one await at a time. Node serves a request until its next
\* await and then may serve another one, so the database reads and writes of
\* requests in flight interleave; nothing in the handlers (no transaction, no
\* lock) ties the reads of a request to its writes.
\* ------------------------------------------------------------------------
MaxRequests == 2

MaxRaceWorkspaces == 2

RaceSessions == {u \in Sessions : u.id \in {"u1", "u2"}}

RaceSlugInputs == {<<"a", "c", "m", "e">>}

RaceEmailInputs == {<<"B", "@", "x">>}

RaceRoles == {"admin", "editor"}

\* the local variables a handler holds across its awaits
Request(proc, pc, user, workspaceId, slug, email, role, id) ==
  [proc |-> proc, pc |-> pc, user |-> user, workspaceId |-> workspaceId,
   slug |-> slug, email |-> email, role |-> role, id |-> id,
   stripeCustomerId |-> Undefined, name |-> <<>>,
   userId |-> "", callerRole |-> "", writes |-> 0]

InFlight == BagToSet(requests)

Suspend(r) == requests' = requests (+) SetToBag({r})

Resume(r, r2) == requests' = (requests (-) SetToBag({r})) (+) SetToBag({r2})

Return(r) == requests' = requests (-) SetToBag({r})

CanAccept == BagCardinality(requests) < MaxRequests

\* creations that have not yet inserted their workspace row
CreationsPending ==
  LET rs == {r \in InFlight : r.pc \in {"provision", "insertWorkspace"}}
  IN SumCopies(requests, rs)

\* workspaces.create up to the slug check (or generateUniqueSlug, whose probes
\* are taken as one read)
create_checkSlug(user, name, inputSlug) ==
  /\ CanAccept
  /\ nextWorkspaceId + CreationsPending <= MaxRaceWorkspaces
  /\ \E r \in createResults(workspaces, user, name, inputSlug, TRUE) :
       IF r.code # "OK" THEN UNCHANGED vars
       ELSE /\ Suspend([Request("create", "provision", user, 0, r.slug, <<>>, "owner", 0)
                          EXCEPT !.name = name])
            /\ UNCHANGED <<accounts, lastCall, assignedSlugs, db, now, nextWorkspaceId, nextInvitationId>>

\* await provisionDatabase(...), await createStripeCustomer(...)
create_provision(r, createStripeCustomer, provisionOk, customerOk) ==
  /\ r.proc = "create" /\ r.pc = "provision"
  /\ IF ProvisionFailed(provisionOk) THEN Return(r)
     ELSE Resume(r, [r EXCEPT !.pc = "insertWorkspace",
                              !.stripeCustomerId =
                                 StripeCustomerId(createStripeCustomer, r.user.email,
                                                  customerOk)])
  /\ UNCHANGED <<accounts, lastCall, assignedSlugs, db, now, nextWorkspaceId, nextInvitationId>>

\* await db.insert(workspaces)
create_insertWorkspace(r) ==
  /\ r.proc = "create" /\ r.pc = "insertWorkspace"
  /\ workspaces' = workspaces \cup {WorkspaceRow(nextWorkspaceId, r.name, r.slug, r.stripeCustomerId)}
  /\ assignedSlugs' = assignedSlugs \cup {r.slug}
  /\ nextWorkspaceId' = nextWorkspaceId + 1
  /\ Resume(r, [r EXCEPT !.pc = "insertMember", !.workspaceId = nextWorkspaceId,
                         !.writes = @ + 1])
  /\ UNCHANGED <<accounts, lastCall, workspaceMembers, workspaceInvitations, now, nextInvitationId>>

\* await db.insert(workspaceMembers)
create_insertMember(r) ==
  /\ r.proc = "create" /\ r.pc = "insertMember"
  /\ workspaceMembers' =
       InsertMember(workspaceMembers, MemberRow(r.workspaceId, r.user.id, "owner", now))
  /\ Return(r)
  /\ UNCHANGED <<accounts, lastCall, assignedSlugs, workspaces, workspaceInvitations, now, nextWorkspaceId, nextInvitationId>>

\* POST /api/workspaces up to the slug check
rest_checkSlug(proc, user, name, slug) ==
  /\ CanAccept
  /\ nextWorkspaceId + CreationsPending <= MaxRaceWorkspaces
  /\ \E r \in restCreateResults(workspaces,
                                IF proc = "vercel" THEN VercelCreateInputValid(name, slug)
                                ELSE ExpressCreateInputValid(name, slug),
                                user, slug, FALSE, TRUE) :
       IF r.code # "201" THEN UNCHANGED vars
       ELSE /\ Suspend([Request(proc, "provision", user, 0, r.slug, <<>>, "owner", 0)
                          EXCEPT !.name = name])
            /\ UNCHANGED <<accounts, lastCall, assignedSlugs, db, now, nextWorkspaceId, nextInvitationId>>

\* if (process.env.NEON_API_KEY) await provisionDatabase(...)
rest_provision(r, neonApiKey, provisionOk) ==
  /\ r.proc \in {"vercel", "express"} /\ r.pc = "provision"
  /\ IF neonApiKey /\ ProvisionFailed(provisionOk) THEN Return(r)
     ELSE Resume(r, [r EXCEPT !.pc = "insertWorkspace"])
  /\ UNCHANGED <<accounts, lastCall, assignedSlugs, db, now, nextWorkspaceId, nextInvitationId>>

rest_insertWorkspace(r) ==
  /\ r.proc \in {"vercel", "express"} /\ r.pc = "insertWorkspace"
  /\ workspaces' = workspaces \cup {WorkspaceRow(nextWorkspaceId, r.name, r.slug, Undefined)}
  /\ assignedSlugs' = assignedSlugs \cup {r.slug}
  /\ nextWorkspaceId' = nextWorkspaceId + 1
  /\ Resume(r, [r EXCEPT !.pc = "insertMember", !.workspaceId = nextWorkspaceId,
                         !.writes = @ + 1])
  /\ UNCHANGED <<accounts, lastCall, workspaceMembers, workspaceInvitations, now, nextInvitationId>>

rest_insertMember(r) ==
  /\ r.proc \in {"vercel", "express"} /\ r.pc = "insertMember"
  /\ workspaceMembers' =
       InsertMember(workspaceMembers, MemberRow(r.workspaceId, r.user.id, "owner", now))
  /\ Return(r)
  /\ UNCHANGED <<accounts, lastCall, assignedSlugs, workspaces, workspaceInvitations, now, nextWorkspaceId, nextInvitationId>>

\* invitations.create up to the caller's membership and role checks
invite_authorize(user, workspaceId, email, role) ==
  /\ CanAccept
  /\ user # NoUser
  /\ \E membership \in getWorkspaceMembership(workspaceMembers, workspaceId, user.id) :
       IF \/ membership = NoRow
          \/ ~isAdminOrOwner(membership.role)
          \/ AdminGrantsAdmin(membership.role, role)
       THEN UNCHANGED vars
       ELSE /\ Suspend(Request("invite", "checkMember", user, workspaceId, <<>>, email, role, 0))
            /\ UNCHANGED <<accounts, lastCall, assignedSlugs, db, now, nextWorkspaceId, nextInvitationId>>

\* "Check if user is already a member"
invite_checkMember(r) ==
  /\ r.proc = "invite" /\ r.pc = "checkMember"
  /\ IF InviteeIsMember(workspaceMembers, r.workspaceId, r.email) THEN Return(r)
     ELSE Resume(r, [r EXCEPT !.pc = "checkInvitation"])
  /\ UNCHANGED <<accounts, lastCall, assignedSlugs, db, now, nextWorkspaceId, nextInvitationId>>

\* "Check for existing pending invitation"
invite_checkInvitation(r) ==
  /\ r.proc = "invite" /\ r.pc = "checkInvitation"
  /\ IF InvitationFor(workspaceInvitations, r.workspaceId, toLowerCase(r.email)) # {NoRow}
     THEN Return(r)
     ELSE Resume(r, [r EXCEPT !.pc = "insert"])
  /\ UNCHANGED <<accounts, lastCall, assignedSlugs, db, now, nextWorkspaceId, nextInvitationId>>

\* await db.insert(workspaceInvitations)
invite_insert(r) ==
  /\ r.proc = "invite" /\ r.pc = "insert"
  /\ nextInvitationId <= MaxInvitations
  /\ nextInvitationId' = nextInvitationId + 1
  /\ workspaceInvitations' = workspaceInvitations \cup
       {InvitationRow(nextInvitationId, r.workspaceId, toLowerCase(r.email), r.role,
                      nextInvitationId, r.user.id, now)}
  /\ Return(r)
  /\ UNCHANGED <<accounts, lastCall, assignedSlugs, workspaces, workspaceMembers, now, nextWorkspaceId>>

\* invitations.revoke up to the caller's membership check
revoke_authorize(user, workspaceId, invitationId) ==
  /\ CanAccept
  /\ user # NoUser
  /\ \E membership \in getWorkspaceMembership(workspaceMembers, workspaceId, user.id) :
       IF membership = NoRow \/ ~isAdminOrOwner(membership.role) THEN UNCHANGED vars
       ELSE /\ Suspend(Request("revoke", "find", user, workspaceId, <<>>, <<>>, "", invitationId))
            /\ UNCHANGED <<accounts, lastCall, assignedSlugs, db, now, nextWorkspaceId, nextInvitationId>>

revoke_find(r) ==
  /\ r.proc = "revoke" /\ r.pc = "find"
  /\ IF InvitationById(workspaceInvitations, r.id, r.workspaceId) = {NoRow} THEN Return(r)
     ELSE Resume(r, [r EXCEPT !.pc = "delete"])
  /\ UNCHANGED <<accounts, lastCall, assignedSlugs, db, now, nextWorkspaceId, nextInvitationId>>

revoke_delete(r) ==
  /\ r.proc = "revoke" /\ r.pc = "delete"
  /\ workspaceInvitations' = {i \in workspaceInvitations : i.id # r.id}
  /\ Return(r)
  /\ UNCHANGED <<accounts, lastCall, assignedSlugs, workspaces, workspaceMembers, now, nextWorkspaceId, nextInvitationId>>

\* invitations.accept up to the checks on the invitation row it read
accept_find(user, token) ==
  /\ CanAccept
  /\ user # NoUser
  /\ \E invitation \in InvitationByToken(workspaceInvitations, token) :
       IF \/ invitation = NoRow
          \/ HasExpired(invitation, now)
          \/ AlreadyAccepted(invitation)
          \/ EmailMismatch(invitation, user)
       THEN UNCHANGED vars
       ELSE /\ Suspend(Request("accept", "checkMember", user, invitation.workspaceId,
                               <<>>, invitation.email, invitation.role, invitation.id))
            /\ UNCHANGED <<accounts, lastCall, assignedSlugs, db, now, nextWorkspaceId, nextInvitationId>>

\* "Check if already a member"
accept_checkMember(r) ==
  /\ r.proc = "accept" /\ r.pc = "checkMember"
  /\ IF getWorkspaceMembership(workspaceMembers, r.workspaceId, r.user.id) # {NoRow}
     THEN Return(r)
     ELSE Resume(r, [r EXCEPT !.pc = "insertMember"])
  /\ UNCHANGED <<accounts, lastCall, assignedSlugs, db, now, nextWorkspaceId, nextInvitationId>>

\* a slip: the row is inserted before "Check if already a member"
accept_insertMember_beforeCheck(r) ==
  /\ r.proc = "accept" /\ r.pc = "insertMember"
  /\ workspaceMembers' =
       InsertMember(workspaceMembers, MemberRow(r.workspaceId, r.user.id, r.role, now))
  /\ Resume(r, [r EXCEPT !.pc = "checkMember", !.writes = @ + 1])
  /\ UNCHANGED <<accounts, lastCall, assignedSlugs, workspaces, workspaceInvitations, now, nextWorkspaceId, nextInvitationId>>

\* await db.insert(workspaceMembers)
accept_insertMember(r) ==
  /\ r.proc = "accept" /\ r.pc = "insertMember"
  /\ workspaceMembers' =
       InsertMember(workspaceMembers, MemberRow(r.workspaceId, r.user.id, r.role, now))
  /\ Resume(r, [r EXCEPT !.pc = "update", !.writes = @ + 1])
  /\ UNCHANGED <<accounts, lastCall, assignedSlugs, workspaces, workspaceInvitations, now, nextWorkspaceId, nextInvitationId>>

accept_update(r) ==
  /\ r.proc = "accept" /\ r.pc = "update"
  /\ workspaceInvitations' = MarkAccepted(workspaceInvitations, r.id, now)
  /\ Return(r)
  /\ UNCHANGED <<accounts, lastCall, assignedSlugs, workspaces, workspaceMembers, now, nextWorkspaceId, nextInvitationId>>

\* one workspace for the invitations to race in
RaceSetup ==
  /\ nextWorkspaceId <= MaxWorkspaces
  /\ \E user \in RaceSessions, name \in NameInputs, inputSlug \in RaceSlugInputs :
       create(user, name, inputSlug, FALSE, TRUE, TRUE)

RaceCreate ==
  \/ \E user \in RaceSessions, name \in NameInputs, inputSlug \in RaceSlugInputs \cup {NoSlug} :
       create_checkSlug(user, name, inputSlug)
  \/ \E r \in InFlight, createStripeCustomer \in BOOLEAN,
        provisionOk \in BOOLEAN, customerOk \in BOOLEAN :
       create_provision(r, createStripeCustomer, provisionOk, customerOk)
  \/ \E r \in InFlight : create_insertWorkspace(r)
  \/ \E r \in InFlight : create_insertMember(r)

RaceRestCreate ==
  \/ \E proc \in {"vercel", "express"}, user \in RaceSessions,
        name \in NameInputs, slug \in RaceSlugInputs :
       rest_checkSlug(proc, user, name, slug)
  \/ \E r \in InFlight, neonApiKey \in BOOLEAN, provisionOk \in BOOLEAN :
       rest_provision(r, neonApiKey, provisionOk)
  \/ \E r \in InFlight : rest_insertWorkspace(r)
  \/ \E r \in InFlight : rest_insertMember(r)

RaceInvite ==
  \/ \E user \in RaceSessions, workspaceId \in WorkspaceIds,
        email \in RaceEmailInputs, role \in RaceRoles :
       invite_authorize(user, workspaceId, email, role)
  \/ \E r \in InFlight : invite_checkMember(r)
  \/ \E r \in InFlight : invite_checkInvitation(r)
  \/ \E r \in InFlight : invite_insert(r)

RaceRevoke ==
  \/ \E user \in RaceSessions, workspaceId \in WorkspaceIds, invitationId \in InvitationIds :
       revoke_authorize(user, workspaceId, invitationId)
  \/ \E r \in InFlight : revoke_find(r)
  \/ \E r \in InFlight : revoke_delete(r)

RaceAccept ==
  \/ \E user \in RaceSessions, token \in InvitationIds : accept_find(user, token)
  \/ \E r \in InFlight : accept_checkMember(r)
  \/ \E r \in InFlight : accept_insertMember(r)
  \/ \E r \in InFlight : accept_update(r)

NextCreateRace == RaceCreate \/ RaceRestCreate

SpecCreateRace == Init /\ [][NextCreateRace]_vars

NextInviteRace == RaceSetup \/ RaceInvite \/ RaceRevoke \/ RaceAccept \/ Tick

SpecInviteRace == Init /\ [][NextInviteRace]_vars

\* workspaces.delete up to the read of the workspace row
delete_find(user, id) ==
  /\ CanAccept
  /\ user # NoUser
  /\ \E workspace \in WorkspaceById(workspaces, id) :
       IF workspace = NoRow THEN UNCHANGED vars
       ELSE /\ Suspend(Request("delete", "authorize", user, workspace.id, <<>>, <<>>, "", 0))
            /\ UNCHANGED <<accounts, lastCall, assignedSlugs, db, now, nextWorkspaceId, nextInvitationId>>

\* "Check user is owner"; deleteDatabase, which is awaited next, touches no table
delete_authorize(r) ==
  /\ r.proc = "delete" /\ r.pc = "authorize"
  /\ \E membership \in getWorkspaceMembership(workspaceMembers, r.workspaceId, r.user.id) :
       IF membership = NoRow \/ ~isOwner(membership.role) THEN Return(r)
       ELSE Resume(r, [r EXCEPT !.pc = "deleteInvitations"])
  /\ UNCHANGED <<accounts, lastCall, assignedSlugs, db, now, nextWorkspaceId, nextInvitationId>>

\* await db.delete(workspaceInvitations)
delete_invitations(r) ==
  /\ r.proc = "delete" /\ r.pc = "deleteInvitations"
  /\ workspaceInvitations' = {i \in workspaceInvitations : i.workspaceId # r.workspaceId}
  /\ Resume(r, [r EXCEPT !.pc = "deleteMembers", !.writes = @ + 1])
  /\ UNCHANGED <<accounts, lastCall, assignedSlugs, workspaces, workspaceMembers, now, nextWorkspaceId, nextInvitationId>>

\* await db.delete(workspaceMembers)
delete_members(r) ==
  /\ r.proc = "delete" /\ r.pc = "deleteMembers"
  /\ workspaceMembers' =
       DeleteMembers(workspaceMembers, WorkspaceMemberRows(workspaceMembers, r.workspaceId))
  /\ Resume(r, [r EXCEPT !.pc = "deleteWorkspace", !.writes = @ + 1])
  /\ UNCHANGED <<accounts, lastCall, assignedSlugs, workspaces, workspaceInvitations, now, nextWorkspaceId, nextInvitationId>>

\* await db.delete(workspaces)
delete_workspace(r) ==
  /\ r.proc = "delete" /\ r.pc = "deleteWorkspace"
  /\ workspaces' = {w \in workspaces : w.id # r.workspaceId}
  /\ Return(r)
  /\ UNCHANGED <<accounts, lastCall, assignedSlugs, workspaceMembers, workspaceInvitations, now, nextWorkspaceId, nextInvitationId>>

RaceDelete ==
  \/ \E user \in RaceSessions, id \in WorkspaceIds : delete_find(user, id)
  \/ \E r \in InFlight : delete_authorize(r)
  \/ \E r \in InFlight : delete_invitations(r)
  \/ \E r \in InFlight : delete_members(r)
  \/ \E r \in InFlight : delete_workspace(r)

NextDeleteRace == RaceSetup \/ RaceInvite \/ RaceAccept \/ RaceDelete

SpecDeleteRace == Init /\ [][NextDeleteRace]_vars

\* ------------------------------------------------------------------------
\* generateUniqueSlug one await at a time: each turn of its loop awaits one
\* select, and creations and deletions of other requests are served between
\* two turns. One call is followed at a time.
\* ------------------------------------------------------------------------
\* values of Math.random().toString(36).substring(2, 6) drawn in this specification
SlugSuffixes == { <<"x", "1", "y", "2">>, <<"z", "9", "z", "9">> }

\* the slugs typed into workspaces.create by the other requests
SlugPool == {slugify(name) : name \in NameInputs}
              \cup {slugify(name) \o <<"-">> \o suffix : name \in NameInputs, suffix \in SlugSuffixes}

\* the local variables of generateUniqueSlug
SlugRequest(pc, baseSlug, slug, attempts) ==
  [proc |-> "generateUniqueSlug", pc |-> pc, baseSlug |-> baseSlug, slug |-> slug,
   attempts |-> attempts]

\* a slip: the loop has no bound
RetriesLeft_always(attempts) == TRUE

\* while (attempts < maxAttempts)
RetriesLeft(attempts) == attempts < maxAttempts

\* const baseSlug = slugify(name); let slug = baseSlug; let attempts = 0
generate_start(name) ==
  /\ requests = EmptyBag
  /\ Suspend(SlugRequest("probe", slugify(name), slugify(name), 0))
  /\ UNCHANGED <<accounts, lastCall, assignedSlugs, db, now, nextWorkspaceId, nextInvitationId>>

\* one turn of the loop: the select, then return slug, or a new suffix and
\* attempts++, and the throw when the loop condition fails
generate_probe(r) ==
  /\ r.proc = "generateUniqueSlug" /\ r.pc = "probe"
  /\ IF ~SlugTaken(workspaces, r.slug)
     THEN Resume(r, [r EXCEPT !.pc = "returned"])
     ELSE \E suffix \in SlugSuffixes :
            LET retry == [r EXCEPT !.slug = r.baseSlug \o <<"-">> \o suffix,
                                   !.attempts = r.attempts + 1]
            IN Resume(r, IF RetriesLeft(retry.attempts) THEN retry
                         ELSE [retry EXCEPT !.pc = "thrown"])
  /\ UNCHANGED <<accounts, lastCall, assignedSlugs, db, now, nextWorkspaceId, nextInvitationId>>

\* the caller takes the slug or the error
generate_done(r) ==
  /\ r.proc = "generateUniqueSlug" /\ r.pc \in {"returned", "thrown"}
  /\ Return(r)
  /\ UNCHANGED <<accounts, lastCall, assignedSlugs, db, now, nextWorkspaceId, nextInvitationId>>

SlugStart == \E name \in NameInputs : generate_start(name)

SlugProbe == \E r \in InFlight : generate_probe(r)

SlugDone == \E r \in InFlight : generate_done(r)

\* the other requests: creations under the slugs of the pool, and deletions
SlugCreation ==
  /\ nextWorkspaceId <= MaxCreated
  /\ \E user \in {u \in Sessions : u.id = "u1"}, name \in NameInputs, inputSlug \in SlugPool :
       create(user, name, inputSlug, FALSE, TRUE, TRUE)

SlugDeletion == \E user \in {u \in Sessions : u.id = "u1"}, id \in CreatedIds : delete(user, id)

NextSlug == SlugStart \/ SlugProbe \/ SlugDone \/ SlugCreation \/ SlugDeletion

SpecSlug == Init /\ [][NextSlug]_vars

\* the select of a turn is answered and the handler resumes
FairSpecSlug == SpecSlug /\ WF_vars(SlugProbe)


\* ------------------------------------------------------------------------
\* Specification: every procedure of the tRPC router, served one after
\* another
\* ------------------------------------------------------------------------
RouterCallers == {u \in Callers : u.id \in {"u1", "u2", "anonymous"}}

RouterNameInputs == {NoName, <<"B", "e", "t", "a">>}

RouterSettingsInputs == {NoSettingsInput, {<<"theme", "dark">>}}

RouterMutation ==
  \/ /\ nextWorkspaceId <= MaxWorkspaces
     /\ \E user \in RouterCallers, name \in NameInputs, inputSlug \in RaceSlugInputs :
          create(user, name, inputSlug, FALSE, TRUE, TRUE)
  \/ \E user \in RouterCallers, id \in WorkspaceIds,
        name \in RouterNameInputs, settings \in RouterSettingsInputs :
       workspaces_update(user, id, name, settings)
  \/ \E user \in RouterCallers, id \in WorkspaceIds : delete(user, id)

RouterMemberMutation ==
  \/ \E user \in RouterCallers, workspaceId \in WorkspaceIds,
        userId \in {"u1", "u2"}, role \in RaceRoles :
       members_updateRole(user, workspaceId, userId, role)
  \/ \E user \in RouterCallers, workspaceId \in WorkspaceIds, userId \in {"u1", "u2"} :
       members_remove(user, workspaceId, userId)
  \/ \E user \in RouterCallers, workspaceId \in WorkspaceIds : members_leave(user, workspaceId)

RouterInvitationMutation ==
  \/ \E user \in RouterCallers, workspaceId \in WorkspaceIds,
        email \in RaceEmailInputs, role \in RaceRoles :
       invitations_create(user, workspaceId, email, role)
  \/ \E user \in RouterCallers, workspaceId \in WorkspaceIds, invitationId \in InvitationIds :
       invitations_revoke(user, workspaceId, invitationId)
  \/ \E user \in RouterCallers, token \in InvitationIds : invitations_accept(user, token)

RouterQuery ==
  \/ \E user \in RouterCallers : workspaces_list(user)
  \/ \E user \in RouterCallers, slug \in RaceSlugInputs \cup {NoSlug},
        id \in WorkspaceIds \cup {NoId} :
       workspaces_get(user, slug, id)
  \/ \E user \in RouterCallers, id \in WorkspaceIds : workspaces_getStats(user, id)
  \/ \E user \in RouterCallers, workspaceId \in WorkspaceIds : members_list(user, workspaceId)
  \/ \E user \in RouterCallers, workspaceId \in WorkspaceIds : invitations_list(user, workspaceId)
  \/ \E token \in InvitationIds : invitations_getByToken(token)

NextRouter ==
  RouterMutation \/ RouterMemberMutation \/ RouterInvitationMutation \/ RouterQuery \/ Tick

SpecRouter == Init /\ [][NextRouter]_vars

\* ------------------------------------------------------------------------
\* POST /api/auth/signup (Express route and Vercel handler, the same code),
\* one await at a time
\* ------------------------------------------------------------------------
MaxAccounts == 3

SignupEmailInputs ==
  { <<"a", "@", "x">>, <<"A", "@", "x">>, <<"b", "@", "x">>, <<"a", "x">> }

\* the lengths of the passwords typed in
SignupPasswordInputs == {7, 8}

\* signupSchema: name 1..255 characters, email an address, password 8 or more
\* characters; an address has an @ with something on both sides
SignupInputValid(name, email, passwordLength) ==
  /\ Len(name) >= 1 /\ Len(name) <= 255
  /\ \E k \in 2..(Len(email) - 1) : email[k] = "@"
  /\ passwordLength >= 8

\* select id from cloud_users where email = ... limit 1
EmailExists(rows, email) == \E u \in BagToSet(rows) : u.email = email

\* the row signup inserts; its id, a fresh random UUID, is what tells two
\* copies of a row in the bag apart
AccountRow(name, email) == [name |-> name, email |-> email, emailVerified |-> NULL]

SignupRequest(proc, pc, name, email) ==
  [proc |-> proc, pc |-> pc, name |-> name, email |-> email]

\* up to the look-up of the email: 400, 409, or on to hashPassword
signupResults(rows, name, email, passwordLength) ==
  IF ~SignupInputValid(name, email, passwordLength) THEN {Err("400", "Validation failed")}
  ELSE IF EmailExists(rows, toLowerCase(email))
  THEN {Err("409", "An account with this email already exists")}
  ELSE {[code |-> "201", msg |-> "Account created successfully",
         email |-> toLowerCase(email)]}

signup_check(proc, name, email, passwordLength) ==
  /\ CanAccept
  /\ BagCardinality(accounts) + BagCardinality(requests) < MaxAccounts
  /\ \E r \in signupResults(accounts, name, email, passwordLength) :
       IF r.code # "201" THEN UNCHANGED vars
       ELSE /\ Suspend(SignupRequest(proc, "hashPassword", name, r.email))
            /\ UNCHANGED <<accounts, lastCall, assignedSlugs, db, now, nextWorkspaceId,
                           nextInvitationId>>

\* await hashPassword(password)
signup_hashPassword(r) ==
  /\ r.proc \in {"signup-express", "signup-vercel"} /\ r.pc = "hashPassword"
  /\ Resume(r, [r EXCEPT !.pc = "insert"])
  /\ UNCHANGED <<accounts, lastCall, assignedSlugs, db, now, nextWorkspaceId, nextInvitationId>>

\* await db.insert(cloudUsers)
signup_insert(r) ==
  /\ r.proc \in {"signup-express", "signup-vercel"} /\ r.pc = "insert"
  /\ accounts' = accounts (+) SetToBag({AccountRow(r.name, r.email)})
  /\ Return(r)
  /\ UNCHANGED <<lastCall, assignedSlugs, db, now, nextWorkspaceId, nextInvitationId>>

RaceSignup ==
  \/ \E proc \in {"signup-express", "signup-vercel"}, name \in NameInputs,
        email \in SignupEmailInputs, passwordLength \in SignupPasswordInputs :
       signup_check(proc, name, email, passwordLength)
  \/ \E r \in InFlight : signup_hashPassword(r)
  \/ \E r \in InFlight : signup_insert(r)

NextSignupRace == RaceSignup

SpecSignupRace == Init /\ [][NextSignupRace]_vars

\* ------------------------------------------------------------------------
\* server/utils.ts: each call of a function is a step that records its
\* arguments and its result
\* ------------------------------------------------------------------------
\* isValidWorkspaceSlug
isValidWorkspaceSlug(slug) ==
  IF Len(slug) < 3 \/ Len(slug) > 50 THEN FALSE
  ELSE IF ~MatchesSlugPattern(slug) THEN FALSE
  ELSE IF IncludesDoubleHyphen(slug) THEN FALSE
  ELSE TRUE

\* "a", n times
Repeat(n) == [k \in 1..n |-> "a"]

UtilSlugInputs ==
  { <<>>, <<"a">>, <<"a", "b">>, <<"a", "b", "c">>, <<"a", "p", "i">>,
    <<"a", "d", "m", "i", "n">>, <<"a", "-", "-", "b">>, <<"a", "-", "b">>,
    <<"9", "a", "b">>, <<"a", "b", "9">>, <<"a", "b", "-">>, <<"-", "a", "b">>,
    <<"A", "b", "c">>, <<"a", "_", "b">>, <<"a", " ", "b">>, <<"-", "-">>,
    <<"d", "o", "c", "s">>, <<"c", "d", "n">>,
    Repeat(49), Repeat(50), Repeat(51), Repeat(52) }

call_isValidWorkspaceSlug(slug) ==
  /\ lastCall' = [fn |-> "isValidWorkspaceSlug", slug |-> slug,
                  result |-> isValidWorkspaceSlug(slug)]
  /\ UNCHANGED <<accounts, assignedSlugs, db, now, nextWorkspaceId, nextInvitationId, requests>>

SlugValidation == \E slug \in UtilSlugInputs : call_isValidWorkspaceSlug(slug)

\* ------------------------------------------------------------------------
\* parseStripeSignature
\* ------------------------------------------------------------------------
\* the value null, and the value undefined where a string is expected
Null == [null |-> TRUE]
UndefinedValue == <<"(undefined)">>

DigitChars == <<"0", "1", "2", "3", "4", "5", "6", "7", "8", "9">>

DigitValue(c) == (CHOOSE k \in 1..10 : DigitChars[k] = c) - 1

\* the number a sequence of decimal digits stands for
RECURSIVE DigitsValue(_)
DigitsValue(s) ==
  IF Len(s) = 0 THEN 0
  ELSE 10 * DigitsValue(SubSeq(s, 1, Len(s) - 1)) + DigitValue(s[Len(s)])

\* String.prototype.split with a separator of one character
RECURSIVE split(_, _)
split(s, sep) ==
  IF \A k \in 1..Len(s) : s[k] # sep THEN <<s>>
  ELSE LET k == CHOOSE k \in 1..Len(s) : s[k] = sep /\ \A j \in 1..(k - 1) : s[j] # sep
       IN <<SubSeq(s, 1, k - 1)>> \o split(SubSeq(s, k + 1, Len(s)), sep)

\* parseInt(value, 10): leading white space is skipped, then an optional
\* sign, then the longest run of digits; the empty set stands for NaN
parseInt(value) ==
  IF value = UndefinedValue THEN {}
  ELSE LET skip == CHOOSE n \in 0..Len(value) :
                     /\ \A k \in 1..n : value[k] = " "
                     /\ n = Len(value) \/ value[n + 1] # " "
           rest == SubSeq(value, skip + 1, Len(value))
           signed == Len(rest) > 0 /\ rest[1] \in {"-", "+"}
           body == IF signed THEN SubSeq(rest, 2, Len(rest)) ELSE rest
           run == CHOOSE n \in 0..Len(body) :
                    /\ \A k \in 1..n : body[k] \in Digits
                    /\ n = Len(body) \/ body[n + 1] \notin Digits
       IN IF run = 0 THEN {}
          ELSE {(IF signed /\ rest[1] = "-" THEN 0 - 1 ELSE 1)
                  * DigitsValue(SubSeq(body, 1, run))}

\* the loop over the parts, from part i on, and the check after the loop
RECURSIVE parseParts(_, _, _, _)
parseParts(parts, i, timestamp, signatures) ==
  IF i > Len(parts)
  THEN IF timestamp = 0 \/ Len(signatures) = 0 THEN Null
       ELSE [timestamp |-> timestamp, signatures |-> signatures]
  ELSE LET kv == split(parts[i], "=")
           key == kv[1]
           value == IF Len(kv) >= 2 THEN kv[2] ELSE UndefinedValue
       IN IF key = <<"t">>
          THEN IF parseInt(value) = {} THEN Null
               ELSE parseParts(parts, i + 1, CHOOSE n \in parseInt(value) : TRUE, signatures)
          ELSE IF key = <<"v", "1">>
          THEN parseParts(parts, i + 1, timestamp, Append(signatures, value))
          ELSE parseParts(parts, i + 1, timestamp, signatures)

parseStripeSignature(header) == parseParts(split(header, ","), 1, 0, <<>>)

HeaderInputs ==
  { <<"t", "=", "1", "2", ",", "v", "1", "=", "a", "b", ",", "v", "1", "=", "c", "d">>,
    <<"t", "=", "1", "2", ",", "v", "1", "=", "a", "b">>,
    <<"v", "1", "=", "a", "b">>,
    <<"t", "=", "1", "2">>,
    <<>>,
    <<"x", "y">>,
    <<"t", "=", "a", "b", ",", "v", "1", "=", "c", "d">>,
    <<"t", "=", "1", "2", ",", "v", "1", "=", "a", "b", ",", "u", "=", "z", "z">>,
    <<"t", "=", "0", ",", "v", "1", "=", "a", "b">>,
    <<"t", "=", "1", "2", "a", ",", "v", "1", "=", "a", "b">>,
    <<"t", "=", "1", "2", ",", "v", "1">>,
    <<"t", ",", "v", "1", "=", "a", "b">>,
    <<"t", "=", ",", "v", "1", "=", "a", "b">>,
    <<"v", "1", "=", "a", "b", ",", "t", "=", "1", "2">>,
    <<"t", "=", "1", "2", ",", "t", "=", "3", "4", ",", "v", "1", "=", "a", "b">>,
    <<"t", "=", "1", "2", ",", "v", "1", "=", "a", "=", "b">>,
    <<"t", "=", "-", "5", ",", "v", "1", "=", "a", "b">>,
    <<"t", "=", "1", "2", ",", "v", "0", "=", "a", "b">>,
    <<"t", "=", "1", "2", ",", "v", "1", "=">>,
    <<" ", "t", "=", "1", "2", ",", "v", "1", "=", "a", "b">>,
    <<"t", "=", "0", "1", "2", ",", "v", "1", "=", "a", "b">>,
    <<"t", "=", "1", "2", ",", ",", "v", "1", "=", "a", "b">>,
    <<"t", "=", "a", "1", ",", "t", "=", "1", "2", ",", "v", "1", "=", "a", "b">> }

call_parseStripeSignature(header) ==
  /\ lastCall' = [fn |-> "parseStripeSignature", header |-> header,
                  result |-> parseStripeSignature(header)]
  /\ UNCHANGED <<accounts, assignedSlugs, db, now, nextWorkspaceId, nextInvitationId, requests>>

SignatureParsing == \E header \in HeaderInputs : call_parseStripeSignature(header)

\* ------------------------------------------------------------------------
\* isTimestampValid
\* ------------------------------------------------------------------------
\* toleranceSeconds: number = 300
DefaultTolerance == 300

Abs(n) == IF n < 0 THEN 0 - n ELSE n

\* a slip: the boundary is left out
isTimestampValid_exclusive(dateNow, timestamp, toleranceSeconds) ==
  Abs((dateNow \div 1000) - timestamp) < toleranceSeconds

\* dateNow: the value of Date.now(), in milliseconds
isTimestampValid(dateNow, timestamp, toleranceSeconds) ==
  LET nowSeconds == dateNow \div 1000
  IN Abs(nowSeconds - timestamp) <= toleranceSeconds

DateNowInputs == {1000000, 1000999}

TimestampInputs ==
  {699, 700, 701, 939, 940, 941, 999, 1000, 1001, 1059, 1060, 1061, 1299, 1300, 1301}

\* the second argument: left out (the empty set) or given
ToleranceInputs == {{}, {60}, {0}}

call_isTimestampValid(dateNow, timestamp, tolerance) ==
  /\ lastCall' =
       [fn |-> "isTimestampValid", dateNow |-> dateNow, timestamp |-> timestamp,
        tolerance |-> tolerance,
        result |-> IF tolerance = {} THEN isTimestampValid(dateNow, timestamp, DefaultTolerance)
                   ELSE isTimestampValid(dateNow, timestamp, CHOOSE t \in tolerance : TRUE)]
  /\ UNCHANGED <<accounts, assignedSlugs, db, now, nextWorkspaceId, nextInvitationId, requests>>

TimestampValidation ==
  \E dateNow \in DateNowInputs, timestamp \in TimestampInputs, tolerance \in ToleranceInputs :
    call_isTimestampValid(dateNow, timestamp, tolerance)

\* ------------------------------------------------------------------------
\* checkConfiguration
\* ------------------------------------------------------------------------
configChecks ==
  << [name |-> "Cloud Database", envVars |-> <<"DATABASE_URL">>, required |-> TRUE],
     [name |-> "Auth.js", envVars |-> <<"AUTH_SECRET">>, required |-> TRUE],
     [name |-> "Google OAuth", envVars |-> <<"GOOGLE_CLIENT_ID", "GOOGLE_CLIENT_SECRET">>,
      required |-> FALSE],
     [name |-> "Stripe", envVars |-> <<"STRIPE_SECRET_KEY", "STRIPE_WEBHOOK_SECRET">>,
      required |-> FALSE],
     [name |-> "Neon API", envVars |-> <<"NEON_API_KEY">>, required |-> FALSE] >>

EnvVarNames == UNION {{c.envVars[k] : k \in 1..Len(c.envVars)} : c \in {configChecks[k] : k \in 1..Len(configChecks)}}

\* what a variable of the environment can hold: nothing, the empty string, a value
EnvValues == {"(undefined)", "", "value"}

\* !!env[v]
Truthy(value) == value \notin {"(undefined)", ""}

\* a slip: one variable is enough to count as configured
ConfigStatus_anyVariable(check, env) ==
  IF \E k \in 1..Len(check.envVars) : Truthy(env[check.envVars[k]])
  THEN [name |-> check.name, status |-> "configured"]
  ELSE IF check.required
  THEN [name |-> check.name, status |-> "missing",
        missingVars |-> SelectSeq(check.envVars, LAMBDA v : ~Truthy(env[v]))]
  ELSE [name |-> check.name, status |-> "optional"]

\* the body of the loop: the status pushed for one check
ConfigStatus(check, env) ==
  LET configured == \A k \in 1..Len(check.envVars) : Truthy(env[check.envVars[k]])
      partial == \E k \in 1..Len(check.envVars) : Truthy(env[check.envVars[k]])
      missingVars == SelectSeq(check.envVars, LAMBDA v : ~Truthy(env[v]))
  IN IF configured THEN [name |-> check.name, status |-> "configured"]
     ELSE IF check.required
     THEN [name |-> check.name, status |-> "missing", missingVars |-> missingVars]
     ELSE IF partial
     THEN [name |-> check.name, status |-> "partial", missingVars |-> missingVars]
     ELSE [name |-> check.name, status |-> "optional"]

\* canStart starts true and is set to false where a status "missing" is pushed
checkConfiguration(env) ==
  LET statuses == [k \in 1..Len(configChecks) |-> ConfigStatus(configChecks[k], env)]
  IN [canStart |-> \A k \in 1..Len(statuses) : statuses[k].status # "missing",
      statuses |-> statuses]

call_checkConfiguration(env) ==
  /\ lastCall' = [fn |-> "checkConfiguration", env |-> env, result |-> checkConfiguration(env)]
  /\ UNCHANGED <<accounts, assignedSlugs, db, now, nextWorkspaceId, nextInvitationId, requests>>

ConfigurationCheck == \E env \in [EnvVarNames -> EnvValues] : call_checkConfiguration(env)

NextUtils == SlugValidation \/ SignatureParsing \/ TimestampValidation \/ ConfigurationCheck

SpecUtils == Init /\ [][NextUtils]_vars

\* ------------------------------------------------------------------------
\* The Stripe webhook endpoints: the Express route and the Vercel route
\* ------------------------------------------------------------------------
\* req.headers["stripe-signature"]: absent (the empty set) or one string
WebhookHeaderInputs == {{}} \cup {{header} : header \in HeaderInputs}

WebhookMethods == {"POST", "GET"}

\* Date.now() when the request arrives
WebhookDateNowInputs == {12000, 1000000}

\* what the handler of the billing package does with the body and the header
HandlerOutcomes == {"success", "failure", "throws"}

\* !signature || typeof signature !== "string"
SignatureMissing(header) == header = {} \/ header = {<<>>}

WebhookCall(endpoint, method, header, dateNow, invoked, status) ==
  [fn |-> "webhook", endpoint |-> endpoint, method |-> method, header |-> header,
   dateNow |-> dateNow, handlerInvoked |-> invoked,
   handlerSignature |-> IF invoked THEN header ELSE {}, status |-> status]

\* app.post("/api/webhooks/stripe"): the route only sees POST requests
express_stripeWebhook(header, dateNow, outcome) ==
  /\ lastCall' =
       IF SignatureMissing(header)
       THEN WebhookCall("express", "POST", header, dateNow, FALSE, 400)
       ELSE IF outcome = "throws"
       THEN WebhookCall("express", "POST", header, dateNow, TRUE, 400)
       ELSE WebhookCall("express", "POST", header, dateNow, TRUE, 200)
  /\ UNCHANGED <<accounts, assignedSlugs, db, now, nextWorkspaceId, nextInvitationId, requests>>

\* the default export of the Vercel route
vercel_stripeWebhook(method, header, dateNow, outcome) ==
  /\ lastCall' =
       IF method # "POST"
       THEN WebhookCall("vercel", method, header, dateNow, FALSE, 405)
       ELSE IF SignatureMissing(header)
       THEN WebhookCall("vercel", method, header, dateNow, FALSE, 400)
       ELSE IF outcome = "throws"
       THEN WebhookCall("vercel", method, header, dateNow, TRUE, 500)
       ELSE IF outcome = "success"
       THEN WebhookCall("vercel", method, header, dateNow, TRUE, 200)
       ELSE WebhookCall("vercel", method, header, dateNow, TRUE, 400)
  /\ UNCHANGED <<accounts, assignedSlugs, db, now, nextWorkspaceId, nextInvitationId, requests>>

ExpressWebhook ==
  \E header \in WebhookHeaderInputs, dateNow \in WebhookDateNowInputs,
     outcome \in HandlerOutcomes :
    express_stripeWebhook(header, dateNow, outcome)

VercelWebhook ==
  \E method \in WebhookMethods, header \in WebhookHeaderInputs,
     dateNow \in WebhookDateNowInputs, outcome \in HandlerOutcomes :
    vercel_stripeWebhook(method, header, dateNow, outcome)

NextWebhook == ExpressWebhook \/ VercelWebhook

SpecWebhook == Init /\ [][NextWebhook]_vars

\* ------------------------------------------------------------------------
\* members.updateRole, members.remove and members.leave, one await at a time,
\* next to the invitation procedures
\* ------------------------------------------------------------------------
\* members.updateRole up to the caller's membership, role and self checks
updateRole_authorize(user, workspaceId, userId, role) ==
  /\ CanAccept
  /\ user # NoUser
  /\ \E currentMembership \in getWorkspaceMembership(workspaceMembers, workspaceId, user.id) :
       IF \/ currentMembership = NoRow
          \/ ~isAdminOrOwner(currentMembership.role)
          \/ TargetsSelf(userId, user)
       THEN UNCHANGED vars
       ELSE /\ Suspend([Request("updateRole", "find", user, workspaceId, <<>>, <<>>, role, 0)
                          EXCEPT !.userId = userId, !.callerRole = currentMembership.role])
            /\ UNCHANGED <<accounts, lastCall, assignedSlugs, db, now, nextWorkspaceId, nextInvitationId>>

\* "Get target member" and the checks on it
updateRole_find(r) ==
  /\ r.proc = "updateRole" /\ r.pc = "find"
  /\ \E targetMembership \in getWorkspaceMembership(workspaceMembers, r.workspaceId, r.userId) :
       IF \/ targetMembership = NoRow
          \/ isOwner(targetMembership.role)
          \/ AdminGrantsAdmin(r.callerRole, r.role)
       THEN Return(r)
       ELSE Resume(r, [r EXCEPT !.pc = "update"])
  /\ UNCHANGED <<accounts, lastCall, assignedSlugs, db, now, nextWorkspaceId, nextInvitationId>>

\* await db.update(workspaceMembers)
updateRole_update(r) ==
  /\ r.proc = "updateRole" /\ r.pc = "update"
  /\ workspaceMembers' =
       UpdateMembers(workspaceMembers,
                     MembershipRows(workspaceMembers, r.workspaceId, r.userId), r.role, now)
  /\ Return(r)
  /\ UNCHANGED <<accounts, lastCall, assignedSlugs, workspaces, workspaceInvitations, now, nextWorkspaceId, nextInvitationId>>

\* members.remove up to the caller's membership, role and self checks
remove_authorize(user, workspaceId, userId) ==
  /\ CanAccept
  /\ user # NoUser
  /\ \E currentMembership \in getWorkspaceMembership(workspaceMembers, workspaceId, user.id) :
       IF \/ currentMembership = NoRow
          \/ ~isAdminOrOwner(currentMembership.role)
          \/ TargetsSelf(userId, user)
       THEN UNCHANGED vars
       ELSE /\ Suspend([Request("remove", "find", user, workspaceId, <<>>, <<>>, "", 0)
                          EXCEPT !.userId = userId, !.callerRole = currentMembership.role])
            /\ UNCHANGED <<accounts, lastCall, assignedSlugs, db, now, nextWorkspaceId, nextInvitationId>>

\* "Get target member" and the checks on it
remove_find(r) ==
  /\ r.proc = "remove" /\ r.pc = "find"
  /\ \E targetMembership \in getWorkspaceMembership(workspaceMembers, r.workspaceId, r.userId) :
       IF \/ targetMembership = NoRow
          \/ isOwner(targetMembership.role)
          \/ AdminRemovesAdmin(r.callerRole, targetMembership.role)
       THEN Return(r)
       ELSE Resume(r, [r EXCEPT !.pc = "delete"])
  /\ UNCHANGED <<accounts, lastCall, assignedSlugs, db, now, nextWorkspaceId, nextInvitationId>>

\* await db.delete(workspaceMembers)
remove_delete(r) ==
  /\ r.proc = "remove" /\ r.pc = "delete"
  /\ workspaceMembers' =
       DeleteMembers(workspaceMembers, MembershipRows(workspaceMembers, r.workspaceId, r.userId))
  /\ Return(r)
  /\ UNCHANGED <<accounts, lastCall, assignedSlugs, workspaces, workspaceInvitations, now, nextWorkspaceId, nextInvitationId>>

\* members.leave up to the caller's membership and owner checks
leave_authorize(user, workspaceId) ==
  /\ CanAccept
  /\ user # NoUser
  /\ \E membership \in getWorkspaceMembership(workspaceMembers, workspaceId, user.id) :
       IF membership = NoRow \/ isOwner(membership.role) THEN UNCHANGED vars
       ELSE /\ Suspend(Request("leave", "delete", user, workspaceId, <<>>, <<>>, "", 0))
            /\ UNCHANGED <<accounts, lastCall, assignedSlugs, db, now, nextWorkspaceId, nextInvitationId>>

\* await db.delete(workspaceMembers)
leave_delete(r) ==
  /\ r.proc = "leave" /\ r.pc = "delete"
  /\ workspaceMembers' =
       DeleteMembers(workspaceMembers, MembershipRows(workspaceMembers, r.workspaceId, r.user.id))
  /\ Return(r)
  /\ UNCHANGED <<accounts, lastCall, assignedSlugs, workspaces, workspaceInvitations, now, nextWorkspaceId, nextInvitationId>>

RaceUpdateRole ==
  \/ \E user \in RaceSessions, workspaceId \in WorkspaceIds,
        userId \in {u.id : u \in RaceSessions}, role \in RaceRoles :
       updateRole_authorize(user, workspaceId, userId, role)
  \/ \E r \in InFlight : updateRole_find(r)
  \/ \E r \in InFlight : updateRole_update(r)

RaceRemove ==
  \/ \E user \in RaceSessions, workspaceId \in WorkspaceIds,
        userId \in {u.id : u \in RaceSessions} :
       remove_authorize(user, workspaceId, userId)
  \/ \E r \in InFlight : remove_find(r)
  \/ \E r \in InFlight : remove_delete(r)

RaceLeave ==
  \/ \E user \in RaceSessions, workspaceId \in WorkspaceIds : leave_authorize(user, workspaceId)
  \/ \E r \in InFlight : leave_delete(r)

NextMemberRace ==
  RaceSetup \/ RaceInvite \/ RaceRevoke \/ RaceAccept \/ RaceUpdateRole \/ RaceRemove \/ RaceLeave

SpecMemberRace == Init /\ [][NextMemberRace]_vars

\* ========================================================================
\* Properties
\* ========================================================================
\* the roles of a user's rows in a workspace (empty: not a member)
RolesOf(workspaceId, userId) ==
  {m.role : m \in {x \in BagToSet(workspaceMembers) :
                     x.workspaceId = workspaceId /\ x.userId = userId}}

IsMember(workspaceId, userId) == RolesOf(workspaceId, userId) # {}

\* number of rows of a workspace with the owner role
OwnerCount(workspaceId) ==
  SumCopies(workspaceMembers,
            {m \in DOMAIN workspaceMembers : m.workspaceId = workspaceId /\ m.role = "owner"})

MembersAndInvitationsUnchanged == UNCHANGED <<workspaceMembers, workspaceInvitations>>

\* ------------------------------------------------------------------------
\* C1: after any sequence of workspace creations, role updates, removals,
\* leaves, invitation acceptances and workspace deletions, every workspace
\* that exists has exactly one member row whose role is owner.
\* ------------------------------------------------------------------------
C1_ExactlyOneOwner == \A w \in workspaces : OwnerCount(w.id) = 1

\* a workspace whose owner shares it with an admin who joined by invitation
C1_Witness ==
  \E w \in workspaces :
    /\ OwnerCount(w.id) = 1
    /\ \E m \in BagToSet(workspaceMembers) : m.workspaceId = w.id /\ m.role = "admin"
    /\ \E i \in workspaceInvitations : i.workspaceId = w.id /\ i.acceptedAt # NULL


\* ------------------------------------------------------------------------
\* C2: in every reachable state no two workspace rows share a slug, for any
\* interleaving of creation requests through workspaces.create and the
\* POST /api/workspaces handlers.
\* ------------------------------------------------------------------------
C2_NoTwoWorkspacesShareASlug ==
  \A a, b \in workspaces : a.slug = b.slug => a.id = b.id

\* ------------------------------------------------------------------------
\* C3: in every reachable state there is at most one pending (not accepted,
\* not expired) invitation per workspace and lower-cased email, for any
\* interleaving of invitations.create, invitations.accept and
\* invitations.revoke calls.
\* ------------------------------------------------------------------------
Pending(i) == i.acceptedAt = NULL /\ i.expiresAt >= now

C3_AtMostOnePendingInvitation ==
  \A i, j \in workspaceInvitations :
    ( /\ Pending(i) /\ Pending(j)
      /\ i.workspaceId = j.workspaceId
      /\ toLowerCase(i.email) = toLowerCase(j.email) )
      => i.id = j.id

\* ------------------------------------------------------------------------
\* C4: invitations.accept on an invitation that is already accepted, or whose
\* expiry time has passed, fails for every caller and writes nothing; a
\* membership is only ever produced from a pending invitation, which that
\* step marks accepted, and an accepted invitation row never changes again,
\* so no invitation produces a membership or an acceptedAt more than once.
\* ------------------------------------------------------------------------
C4_AcceptFails ==
  \A user \in Callers, i \in workspaceInvitations :
    (i.acceptedAt # NULL \/ i.expiresAt < now) =>
      Codes(acceptResults(workspaceMembers, workspaceInvitations, now, user, i.token))
        \subseteq {"BAD_REQUEST", "UNAUTHORIZED"}

C4_AcceptOnce ==
  /\ \A i \in workspaceInvitations :
       i.acceptedAt # NULL => \A j \in workspaceInvitations' : j.id = i.id => j = i
  /\ \A user \in Callers, token \in InvitationIds :
       (~MembersAndInvitationsUnchanged /\ invitations_accept(user, token))
         => \E i \in workspaceInvitations :
              /\ i.token = token /\ i.acceptedAt = NULL /\ i.expiresAt >= now
              /\ [i EXCEPT !.acceptedAt = now] \in workspaceInvitations'
              /\ BagCardinality(workspaceMembers') = BagCardinality(workspaceMembers) + 1

C5_AdminGrantingAdminIsForbidden ==
  \A user \in Sessions, w \in WorkspaceIds :
    RolesOf(w, user.id) = {"admin"} =>
      /\ \A email \in EmailInputs :
           Codes(inviteResults(workspaceMembers, workspaceInvitations, user, w, email, "admin"))
             = {"FORBIDDEN"}
      /\ \A userId \in UserIds :
           Codes(updateRoleResults(workspaceMembers, user, w, userId, "admin")) = {"FORBIDDEN"}

\* C5 (amended): whenever the caller's role is admin, invitations.create with
\* role admin is rejected with FORBIDDEN, and members.updateRole with role
\* admin is rejected: with FORBIDDEN when the target is another member of the
\* workspace, with BAD_REQUEST when the target is the caller, with NOT_FOUND
\* when the target is not a member; no membership or invitation changes.
C5_AdminCannotGrantAdminCodes ==
  \A user \in Sessions, w \in WorkspaceIds :
    RolesOf(w, user.id) = {"admin"} =>
      /\ \A email \in EmailInputs :
           Codes(inviteResults(workspaceMembers, workspaceInvitations, user, w, email, "admin"))
             = {"FORBIDDEN"}
      /\ \A userId \in UserIds :
           Codes(updateRoleResults(workspaceMembers, user, w, userId, "admin")) =
             IF userId = user.id THEN {"BAD_REQUEST"}
             ELSE IF ~IsMember(w, userId) THEN {"NOT_FOUND"}
             ELSE {"FORBIDDEN"}

C5_AdminCannotGrantAdminWrites ==
  \A user \in Sessions, w \in WorkspaceIds :
    (~MembersAndInvitationsUnchanged /\ RolesOf(w, user.id) = {"admin"}) =>
      /\ \A email \in EmailInputs :
           invitations_create(user, w, email, "admin") => MembersAndInvitationsUnchanged
      /\ \A userId \in UserIds :
           members_updateRole(user, w, userId, "admin") => MembersAndInvitationsUnchanged

C5_AdminCannotGrantAdmin ==
  [](C5_AdminCannotGrantAdminCodes) /\ [][C5_AdminCannotGrantAdminWrites]_vars

\* an admin shares the workspace with an editor it could try to promote
C5_Witness ==
  \E user \in Sessions, w \in WorkspaceIds, userId \in UserIds :
    /\ RolesOf(w, user.id) = {"admin"}
    /\ RolesOf(w, userId) = {"editor"}
    /\ updateRoleResults(workspaceMembers, user, w, userId, "admin")
         = {Err("FORBIDDEN", "Only owners can promote members to admin")}

C6_OwnerGrantsAdminCodes ==
  \A user \in Sessions, w \in WorkspaceIds :
    RolesOf(w, user.id) = {"owner"} =>
      /\ \A email \in EmailInputs :
           Codes(inviteResults(workspaceMembers, workspaceInvitations, user, w, email, "admin")) =
             IF \/ InviteeIsMember(workspaceMembers, w, email)
                \/ \E i \in workspaceInvitations :
                     i.workspaceId = w /\ i.email = toLowerCase(email)
             THEN {"CONFLICT"} ELSE {"OK"}
      /\ \A userId \in UserIds :
           Codes(updateRoleResults(workspaceMembers, user, w, userId, "admin")) =
             IF userId = user.id THEN {"BAD_REQUEST"}
             ELSE IF ~IsMember(w, userId) THEN {"NOT_FOUND"}
             ELSE {"OK"}

C6_OwnerGrantsAdminWrites ==
  \A user \in Sessions, w \in WorkspaceIds :
    (~MembersAndInvitationsUnchanged /\ RolesOf(w, user.id) = {"owner"}) =>
      /\ \A userId \in UserIds \ {user.id} :
           (members_updateRole(user, w, userId, "admin") /\ IsMember(w, userId))
             => \E m \in BagToSet(workspaceMembers') :
                  m.workspaceId = w /\ m.userId = userId /\ m.role = "admin"
      /\ \A email \in EmailInputs :
           (invitations_create(user, w, email, "admin")
              /\ Codes(inviteResults(workspaceMembers, workspaceInvitations,
                                     user, w, email, "admin")) = {"OK"})
             => \E i \in workspaceInvitations' \ workspaceInvitations :
                  /\ i.workspaceId = w /\ i.email = toLowerCase(email)
                  /\ i.role = "admin" /\ i.acceptedAt = NULL

C7_AdminUpdateRoleKeepsAdmins ==
  \A user \in Sessions, w \in WorkspaceIds, userId \in UserIds, role \in InputRole :
    ( /\ workspaceMembers' # workspaceMembers
      /\ RolesOf(w, user.id) = {"admin"}
      /\ RolesOf(w, userId) = {"admin"}
      /\ members_updateRole(user, w, userId, role) )
      => \E m \in BagToSet(workspaceMembers') :
           m.workspaceId = w /\ m.userId = userId /\ m.role = "admin"

C7_AdminNeverChangesAnAdminsRole == [][C7_AdminUpdateRoleKeepsAdmins]_vars

\* ------------------------------------------------------------------------
\* C8 (as stated): members.remove called by a member whose role is admin on
\* a target whose role is admin is rejected with FORBIDDEN.
\* ------------------------------------------------------------------------
C8_AdminRemovingAdminIsForbidden ==
  \A user \in Sessions, w \in WorkspaceIds, userId \in UserIds :
    (RolesOf(w, user.id) = {"admin"} /\ RolesOf(w, userId) = {"admin"}) =>
      Codes(removeResults(workspaceMembers, user, w, userId)) = {"FORBIDDEN"}

\* C8 (amended): members.remove called by a member whose role is admin on a
\* target whose role is admin is rejected, with FORBIDDEN when the target is
\* another member and with BAD_REQUEST when the target is the caller, and the
\* target stays a member with the role admin.
C8_AdminCannotRemoveAdminCodes ==
  \A user \in Sessions, w \in WorkspaceIds, userId \in UserIds :
    (RolesOf(w, user.id) = {"admin"} /\ RolesOf(w, userId) = {"admin"}) =>
      Codes(removeResults(workspaceMembers, user, w, userId)) =
        IF userId = user.id THEN {"BAD_REQUEST"} ELSE {"FORBIDDEN"}

C8_AdminCannotRemoveAdminWrites ==
  \A user \in Sessions, w \in WorkspaceIds, userId \in UserIds :
    ( /\ workspaceMembers' # workspaceMembers
      /\ RolesOf(w, user.id) = {"admin"}
      /\ RolesOf(w, userId) = {"admin"}
      /\ members_remove(user, w, userId) )
      => \E m \in BagToSet(workspaceMembers') :
           m.workspaceId = w /\ m.userId = userId /\ m.role = "admin"

C8_AdminCannotRemoveAdmin ==
  [](C8_AdminCannotRemoveAdminCodes) /\ [][C8_AdminCannotRemoveAdminWrites]_vars

\* two admins share a workspace, and a removal of one by the other is refused
C8_Witness ==
  \E user \in Sessions, w \in WorkspaceIds, userId \in UserIds :
    /\ userId # user.id
    /\ RolesOf(w, user.id) = {"admin"}
    /\ RolesOf(w, userId) = {"admin"}
    /\ removeResults(workspaceMembers, user, w, userId)
         = {Err("FORBIDDEN", "Admins cannot remove other admins")}

\* ------------------------------------------------------------------------
\* C9: members.updateRole and members.remove that target the owner, and
\* members.leave called by the owner, are rejected for every caller, and no
\* step of these three procedures changes or deletes a membership whose role
\* is owner.
\* ------------------------------------------------------------------------
C9_OwnerTargetRejected ==
  \A w \in WorkspaceIds, owner \in Sessions :
    "owner" \in RolesOf(w, owner.id) =>
      /\ \A user \in Callers :
           /\ \A role \in InputRole :
                "OK" \notin Codes(updateRoleResults(workspaceMembers, user, w, owner.id, role))
           /\ "OK" \notin Codes(removeResults(workspaceMembers, user, w, owner.id))
      /\ "OK" \notin Codes(leaveResults(workspaceMembers, owner, w))

C9_OwnerRowsKept ==
  (workspaceMembers' # workspaceMembers /\ (UpdateRoleStep \/ RemoveStep \/ LeaveStep))
    => \A m \in BagToSet(workspaceMembers) :
         m.role = "owner" =>
           CopiesIn(m, workspaceMembers') = CopiesIn(m, workspaceMembers)

C9_OwnerMembershipIsImmutable == [](C9_OwnerTargetRejected) /\ [][C9_OwnerRowsKept]_vars

\* the owner shares the workspace with an admin, the one other role whose
\* updateRole and remove calls pass the caller check
C9_Witness ==
  \E w \in WorkspaceIds, owner, user \in Sessions :
    /\ RolesOf(w, owner.id) = {"owner"}
    /\ RolesOf(w, user.id) = {"admin"}
    /\ removeResults(workspaceMembers, user, w, owner.id)
         = {Err("FORBIDDEN", "Cannot remove the workspace owner")}
    /\ leaveResults(workspaceMembers, owner, w) # {}
    /\ "OK" \notin Codes(leaveResults(workspaceMembers, owner, w))

\* ------------------------------------------------------------------------
\* C10: invitations.create, invitations.revoke, members.updateRole and
\* members.remove, called by a signed-in user who is not a member of the
\* workspace or whose role is editor or viewer, are rejected with FORBIDDEN
\* whatever the other arguments, and change no membership or invitation.
\* ------------------------------------------------------------------------
NotAdminOrOwner(w, user) == RolesOf(w, user.id) \in {{}, {"editor"}, {"viewer"}}

C10_Forbidden ==
  \A user \in Sessions, w \in WorkspaceIds :
    NotAdminOrOwner(w, user) =>
      /\ \A email \in EmailInputs, role \in InputRole :
           Codes(inviteResults(workspaceMembers, workspaceInvitations, user, w, email, role))
             = {"FORBIDDEN"}
      /\ \A invitationId \in InvitationIds :
           Codes(revokeResults(workspaceMembers, workspaceInvitations, user, w, invitationId))
             = {"FORBIDDEN"}
      /\ \A userId \in UserIds :
           /\ \A role \in InputRole :
                Codes(updateRoleResults(workspaceMembers, user, w, userId, role)) = {"FORBIDDEN"}
           /\ Codes(removeResults(workspaceMembers, user, w, userId)) = {"FORBIDDEN"}

C10_NoWrites ==
  \A user \in Sessions, w \in WorkspaceIds :
    (~MembersAndInvitationsUnchanged /\ NotAdminOrOwner(w, user)) =>
      /\ \A email \in EmailInputs, role \in InputRole :
           ~invitations_create(user, w, email, role)
      /\ \A invitationId \in InvitationIds : ~invitations_revoke(user, w, invitationId)
      /\ \A userId \in UserIds :
           /\ \A role \in InputRole : ~members_updateRole(user, w, userId, role)
           /\ ~members_remove(user, w, userId)

C10_OnlyAdminOrOwnerManages == [](C10_Forbidden) /\ [][C10_NoWrites]_vars

\* a workspace with a pending invitation has an editor or viewer as member,
\* and a signed-in user who is not a member
C10_Witness ==
  \E w \in workspaces, user, other \in Sessions :
    /\ RolesOf(w.id, user.id) \in {{"editor"}, {"viewer"}}
    /\ RolesOf(w.id, other.id) = {}
    /\ \E i \in workspaceInvitations : i.workspaceId = w.id /\ i.acceptedAt = NULL


\* ------------------------------------------------------------------------
\* C11: invitations.accept creates a membership only for a caller whose
\* session email equals the invitation's email ignoring case; for a caller
\* with any other email the call is rejected, whatever the invitation's
\* state, and no membership or invitation record changes.
\* ------------------------------------------------------------------------
SameEmailIgnoringCase(a, b) == toLowerCase(a) = toLowerCase(b)

C11_OtherEmailRejected ==
  \A user \in Sessions, i \in workspaceInvitations :
    ~SameEmailIgnoringCase(user.email, i.email) =>
      "OK" \notin Codes(acceptResults(workspaceMembers, workspaceInvitations, now, user, i.token))

C11_OnlyTheInviteeJoins ==
  /\ \A i \in workspaceInvitations, j \in workspaceInvitations' :
       (j.id = i.id /\ i.acceptedAt = NULL /\ j.acceptedAt # NULL) =>
         \E user \in Sessions :
           /\ SameEmailIgnoringCase(user.email, i.email)
           /\ workspaceMembers' =
                workspaceMembers (+) SetToBag({MemberRow(i.workspaceId, user.id, i.role, now)})
  /\ \A user \in Sessions, i \in workspaceInvitations :
       (~MembersAndInvitationsUnchanged /\ ~SameEmailIgnoringCase(user.email, i.email))
         => ~invitations_accept(user, i.token)

C11_AcceptOnlyByInvitedEmail == [](C11_OtherEmailRejected) /\ [][C11_OnlyTheInviteeJoins]_vars

\* the account registered as "C@x" has joined through the invitation sent to
\* "c@x", while a pending invitation to another address is still open
C11_Witness ==
  \E i, j \in workspaceInvitations, user \in Sessions :
    /\ i.acceptedAt # NULL
    /\ user.email # i.email /\ SameEmailIgnoringCase(user.email, i.email)
    /\ IsMember(i.workspaceId, user.id)
    /\ j.acceptedAt = NULL /\ j.expiresAt >= now
    /\ ~SameEmailIgnoringCase(user.email, j.email)


\* ------------------------------------------------------------------------
\* C12: a successful invitations.accept adds exactly one membership (the
\* invitation's workspace, the caller, the invitation's role) and sets that
\* invitation's acceptedAt, the membership's createdAt and updatedAt being
\* equal to acceptedAt; no other membership, invitation or workspace record
\* changes.
\* ------------------------------------------------------------------------
C12_AcceptWrites ==
  \A i \in workspaceInvitations, j \in workspaceInvitations' :
    (j.id = i.id /\ i.acceptedAt = NULL /\ j.acceptedAt # NULL) =>
      /\ j = [i EXCEPT !.acceptedAt = j.acceptedAt]
      /\ workspaceInvitations' = (workspaceInvitations \ {i}) \cup {j}
      /\ workspaces' = workspaces
      /\ \E user \in Sessions :
           /\ invitations_accept(user, i.token)
           /\ workspaceMembers' = workspaceMembers (+) SetToBag({
                [workspaceId |-> i.workspaceId, userId |-> user.id, role |-> i.role,
                 createdAt |-> j.acceptedAt, updatedAt |-> j.acceptedAt]})

C12_AcceptAddsOneMembership == [][C12_AcceptWrites]_vars

\* an invitation was accepted some days after the workspace was created, the
\* membership carries the acceptance time, and another invitation is pending
C12_Witness ==
  \E i, j \in workspaceInvitations :
    /\ i.acceptedAt # NULL /\ i.acceptedAt > 0
    /\ j.acceptedAt = NULL
    /\ \E m \in BagToSet(workspaceMembers) :
         /\ m.workspaceId = i.workspaceId /\ m.role = i.role
         /\ m.createdAt = i.acceptedAt /\ m.updatedAt = i.acceptedAt


\* ------------------------------------------------------------------------
\* C13: every workspace row persisted by any creation entry point has a slug
\* that is lowercase, 3 to 50 characters long, starts with a letter, ends
\* with a letter or digit, contains only letters, digits and hyphens, has no
\* consecutive hyphens and is not in the reserved list.
\* ------------------------------------------------------------------------
WellFormedSlug(s) ==
  /\ Len(s) >= 3 /\ Len(s) <= 50
  /\ \A k \in 1..Len(s) : s[k] \in LowerLetters \cup Digits \cup {"-"}
  /\ s[1] \in LowerLetters
  /\ s[Len(s)] \in LowerLetters \cup Digits
  /\ \A k \in 1..(Len(s) - 1) : ~(s[k] = "-" /\ s[k + 1] = "-")
  /\ s \notin RESERVED_SLUGS

C13_EveryStoredSlugIsWellFormed == \A w \in workspaces : WellFormedSlug(w.slug)

\* ------------------------------------------------------------------------
\* C14: once a slug has been assigned to a workspace, no later workspace
\* creation is accepted with that slug, also after that workspace has been
\* deleted.
\* ------------------------------------------------------------------------
C14_NewRowTakesFreshSlug ==
  \A w \in workspaces' \ workspaces : w.slug \notin assignedSlugs

C14_SlugsAreNeverReused == [][C14_NewRowTakesFreshSlug]_vars

\* nearby: a creation never takes the slug of a workspace that exists
C14_NewRowTakesNoLiveSlug ==
  [][\A w \in workspaces' \ workspaces : \A v \in workspaces : v.slug # w.slug]_vars

\* ------------------------------------------------------------------------
\* C15: when database provisioning reports failure, workspaces.create and the
\* two POST /api/workspaces routes answer with an error (INTERNAL_SERVER_ERROR
\* "Failed to provision database", status 500) and write no workspace row and
\* no membership row.
\* ------------------------------------------------------------------------
C15_ProvisionFailureIsAnError ==
  /\ \A user \in CreateCallers, name \in NameInputs,
        inputSlug \in CreateSlugInputs \cup {NoSlug} :
       LET failed == createResults(workspaces, user, name, inputSlug, FALSE)
           passed == createResults(workspaces, user, name, inputSlug, TRUE)
       IN /\ "OK" \notin Codes(failed)
          /\ \A r \in passed : r.code = "OK" =>
               Err("INTERNAL_SERVER_ERROR", "Failed to provision database") \in failed
  /\ \A user \in CreateCallers, name \in NameInputs, slug \in CreateSlugInputs :
     \A valid \in {VercelCreateInputValid(name, slug), ExpressCreateInputValid(name, slug)} :
       LET failed == restCreateResults(workspaces, valid, user, slug, TRUE, FALSE)
           passed == restCreateResults(workspaces, valid, user, slug, TRUE, TRUE)
       IN /\ "201" \notin Codes(failed)
          /\ "201" \in Codes(passed) => Codes(failed) = {"500"}

C15_ProvisionFailureWritesNothing ==
  (workspaces' # workspaces \/ workspaceMembers' # workspaceMembers) =>
    /\ \A user \in CreateCallers, name \in NameInputs,
          inputSlug \in CreateSlugInputs \cup {NoSlug}, createStripeCustomer \in BOOLEAN,
          customerOk \in BOOLEAN :
         ~create(user, name, inputSlug, createStripeCustomer, FALSE, customerOk)
    /\ \A user \in CreateCallers, name \in NameInputs, slug \in CreateSlugInputs :
         /\ ~handleCreateWorkspace(user, name, slug, TRUE, FALSE)
         /\ ~expressCreateWorkspace(user, name, slug, TRUE, FALSE)

C15_ProvisionFailureAbortsCreation ==
  [](C15_ProvisionFailureIsAnError) /\ [][C15_ProvisionFailureWritesNothing]_vars

\* a workspace exists, and a creation under another slug reaches provisioning
\* on each entry point and fails there
C15_Witness ==
  /\ \E w \in workspaces : w.slug = <<"a", "c", "m", "e">>
  /\ \E user \in Sessions, name \in NameInputs :
       /\ Codes(createResults(workspaces, user, name, <<"a", "b">>, FALSE))
            = {"INTERNAL_SERVER_ERROR"}
       /\ Codes(restCreateResults(workspaces, TRUE, user, <<"a", "b", "c">>, TRUE, FALSE))
            = {"500"}
       /\ Codes(createResults(workspaces, user, name, <<"a", "c", "m", "e">>, FALSE))
            = {"CONFLICT"}

\* ------------------------------------------------------------------------
\* C16: workspaces.create with createStripeCustomer set, when the creation of
\* the billing customer fails: the workspace row and the owner's membership
\* row are written all the same, and the workspace row has no customer id.
\* ------------------------------------------------------------------------
C16_CustomerFailureKeepsCreation ==
  workspaces' # workspaces =>
    \A user \in CreateCallers, name \in NameInputs,
       inputSlug \in CreateSlugInputs \cup {NoSlug} :
      create(user, name, inputSlug, TRUE, TRUE, FALSE) =>
        \E w \in workspaces' \ workspaces :
          /\ workspaces' = workspaces \cup {w}
          /\ w.id = nextWorkspaceId
          /\ w.stripeCustomerId = Undefined
          /\ workspaceMembers' = workspaceMembers (+) SetToBag({
               [workspaceId |-> w.id, userId |-> user.id, role |-> "owner",
                createdAt |-> now, updatedAt |-> now]})

C16_CreateSurvivesCustomerFailure ==
  [](\A user \in Sessions, name \in NameInputs, inputSlug \in CreateSlugInputs :
       ~SlugTaken(workspaces, inputSlug) =>
         Codes(createResults(workspaces, user, name, inputSlug, TRUE)) = {"OK"})
  /\ [][C16_CustomerFailureKeepsCreation]_vars

\* one workspace was created without a customer id and has its owner, another
\* one was created with a customer id
C16_Witness ==
  \E w, v \in workspaces :
    /\ w.stripeCustomerId = Undefined
    /\ v.stripeCustomerId # Undefined
    /\ \E m \in BagToSet(workspaceMembers) :
         m.workspaceId = w.id /\ m.role = "owner" /\ m.userId = "u1"

\* ------------------------------------------------------------------------
\* C17: workspaces.delete is carried out only for the owner of the workspace,
\* and once a workspace was deleted no membership row and no invitation row
\* with its id exists, also when an invitations.accept or invitations.create
\* for the workspace is in flight while the delete runs.
\* ------------------------------------------------------------------------
\* ids are handed out in order and a workspace row only goes away by a delete
DeletedWorkspaceIds == {id \in 1..(nextWorkspaceId - 1) : \A w \in workspaces : w.id # id}

C17_OnlyTheOwnerDeletes ==
  \A user \in Callers, id \in WorkspaceIds :
    "owner" \notin RolesOf(id, user.id) =>
      "OK" \notin Codes(deleteResults(workspaces, workspaceMembers, user, id))

C17_NoRowsOfADeletedWorkspace ==
  \A id \in DeletedWorkspaceIds :
    /\ \A m \in BagToSet(workspaceMembers) : m.workspaceId # id
    /\ \A i \in workspaceInvitations : i.workspaceId # id

C18_ReturnedSlugIsFree ==
  requests' # requests =>
    \A r \in BagToSet(requests') \ BagToSet(requests) :
      (r.proc = "generateUniqueSlug" /\ r.pc = "returned") =>
        /\ \A w \in workspaces : w.slug # r.slug
        /\ \A w \in workspaces' : w.slug # r.slug

C18_NeverReturnsAStoredSlug == [][C18_ReturnedSlugIsFree]_vars

\* a call has returned a suffixed slug while the base slug is stored
C18_Witness ==
  \E r \in BagToSet(requests) :
    /\ r.proc = "generateUniqueSlug" /\ r.pc = "returned"
    /\ r.slug # r.baseSlug /\ r.attempts > 0
    /\ \E w \in workspaces : w.slug = r.baseSlug
    /\ \A w \in workspaces : w.slug # r.slug

\* ------------------------------------------------------------------------
\* C19: generateUniqueSlug terminates whatever is stored: a probe that hits a
\* stored slug is followed by a probe of the base slug with a hyphen and a
\* drawn suffix, no more than 10 probes are made, and after the 10th hit the
\* call throws instead of probing again.
\* ------------------------------------------------------------------------
C19_AtMostTenAttempts ==
  \A r \in BagToSet(requests) :
    r.proc = "generateUniqueSlug" =>
      /\ r.attempts \in 0..10
      /\ r.pc = "probe" => r.attempts < 10
      /\ r.pc = "thrown" => r.attempts = 10
      /\ r.pc = "returned" => r.attempts < 10

C19_CollisionRetriesWithSuffix ==
  requests' # requests =>
    \A r \in BagToSet(requests), r2 \in BagToSet(requests') :
      (r.proc = "generateUniqueSlug" /\ r.pc = "probe" /\ r2 # r
         /\ (\E w \in workspaces : w.slug = r.slug)) =>
        /\ r2.attempts = r.attempts + 1
        /\ r2.baseSlug = r.baseSlug
        /\ \E suffix \in SlugSuffixes : r2.slug = r.baseSlug \o <<"-">> \o suffix
        /\ r2.pc = IF r2.attempts = 10 THEN "thrown" ELSE "probe"

C19_Probing == \E r \in BagToSet(requests) : r.pc = "probe"

C19_Finished == \E r \in BagToSet(requests) : r.pc \in {"returned", "thrown"}

C19_GenerateUniqueSlugTerminates ==
  /\ [](C19_AtMostTenAttempts)
  /\ [][C19_CollisionRetriesWithSuffix]_vars
  /\ (C19_Probing ~> C19_Finished)

\* a call has thrown after ten probes that all hit a stored slug
C19_Witness ==
  \E r \in BagToSet(requests) :
    /\ r.proc = "generateUniqueSlug" /\ r.pc = "thrown" /\ r.attempts = 10
    /\ \A slug \in SlugPool : \E w \in workspaces : w.slug = slug

\* ------------------------------------------------------------------------
\* C20: members.updateRole and members.remove called with the caller's own
\* id as userId are rejected whatever the caller's role is, and the caller's
\* membership row is neither changed nor deleted by such a call.
\* ------------------------------------------------------------------------
C20_SelfCallRejected ==
  \A user \in Sessions, workspaceId \in WorkspaceIds :
    /\ "OK" \notin Codes(removeResults(workspaceMembers, user, workspaceId, user.id))
    /\ \A role \in InputRole :
         "OK" \notin Codes(updateRoleResults(workspaceMembers, user, workspaceId, user.id, role))

C20_SelfCallWritesNothing ==
  workspaceMembers' # workspaceMembers =>
    \A user \in Sessions, workspaceId \in WorkspaceIds :
      /\ ~members_remove(user, workspaceId, user.id)
      /\ \A role \in InputRole : ~members_updateRole(user, workspaceId, user.id, role)

C20_NoSelfManagement == [](C20_SelfCallRejected) /\ [][C20_SelfCallWritesNothing]_vars

\* an owner, an admin and a third member of one workspace: the owner's and
\* the admin's call on themselves is a bad request, the third member's is
\* forbidden
C20_Witness ==
  \E workspaceId \in WorkspaceIds, owner \in Sessions, admin \in Sessions, other \in Sessions :
    /\ RolesOf(workspaceId, owner.id) = {"owner"}
    /\ RolesOf(workspaceId, admin.id) = {"admin"}
    /\ RolesOf(workspaceId, other.id) \in {{"editor"}, {"viewer"}}
    /\ Codes(removeResults(workspaceMembers, owner, workspaceId, owner.id)) = {"BAD_REQUEST"}
    /\ Codes(updateRoleResults(workspaceMembers, admin, workspaceId, admin.id, "editor"))
         = {"BAD_REQUEST"}
    /\ Codes(removeResults(workspaceMembers, other, workspaceId, other.id)) = {"FORBIDDEN"}

\* ------------------------------------------------------------------------
\* C21: every procedure of the router but invitations.getByToken answers a
\* call without an authenticated user with UNAUTHORIZED, whatever its input
\* and whatever is stored, and such a call changes no record;
\* invitations.getByToken, which needs no user, changes no record either.
\* ------------------------------------------------------------------------
C21_UnauthenticatedCallsAreRejected ==
  LET Rejected(results) == results = {UNAUTHORIZED} IN
  /\ \A name \in NameInputs, inputSlug \in RaceSlugInputs \cup {NoSlug}, provisionOk \in BOOLEAN :
       Rejected(createResults(workspaces, NoUser, name, inputSlug, provisionOk))
  /\ Rejected(listResults(NoUser))
  /\ \A slug \in RaceSlugInputs \cup {NoSlug}, id \in WorkspaceIds \cup {NoId} :
       Rejected(getResults(workspaces, workspaceMembers, NoUser, slug, id))
  /\ \A id \in WorkspaceIds :
       /\ Rejected(updateResults(workspaces, workspaceMembers, NoUser, id))
       /\ Rejected(deleteResults(workspaces, workspaceMembers, NoUser, id))
       /\ Rejected(getStatsResults(workspaces, workspaceMembers, NoUser, id))
       /\ Rejected(membersListResults(workspaceMembers, NoUser, id))
       /\ Rejected(leaveResults(workspaceMembers, NoUser, id))
       /\ Rejected(invitationsListResults(workspaceMembers, NoUser, id))
       /\ \A userId \in UserIds \cup {NoUser.id} :
            /\ Rejected(removeResults(workspaceMembers, NoUser, id, userId))
            /\ \A role \in InputRole :
                 Rejected(updateRoleResults(workspaceMembers, NoUser, id, userId, role))
       /\ \A email \in EmailInputs, role \in InputRole :
            Rejected(inviteResults(workspaceMembers, workspaceInvitations, NoUser, id, email, role))
       /\ \A invitationId \in InvitationIds :
            Rejected(revokeResults(workspaceMembers, workspaceInvitations, NoUser, id, invitationId))
  /\ \A token \in InvitationIds :
       Rejected(acceptResults(workspaceMembers, workspaceInvitations, now, NoUser, token))

C21_UnauthenticatedCallsWriteNothing ==
  db' # db =>
    /\ \A name \in NameInputs, inputSlug \in RaceSlugInputs :
         ~create(NoUser, name, inputSlug, FALSE, TRUE, TRUE)
    /\ \A id \in WorkspaceIds :
         /\ ~delete(NoUser, id)
         /\ ~members_leave(NoUser, id)
         /\ \A name \in RouterNameInputs, settings \in RouterSettingsInputs :
              ~workspaces_update(NoUser, id, name, settings)
         /\ \A userId \in UserIds \cup {NoUser.id} :
              /\ ~members_remove(NoUser, id, userId)
              /\ \A role \in InputRole : ~members_updateRole(NoUser, id, userId, role)
         /\ \A email \in EmailInputs, role \in InputRole :
              ~invitations_create(NoUser, id, email, role)
         /\ \A invitationId \in InvitationIds : ~invitations_revoke(NoUser, id, invitationId)
    /\ \A token \in InvitationIds :
         /\ ~invitations_accept(NoUser, token)
         /\ ~invitations_getByToken(token)

C21_OnlyGetByTokenIsPublic ==
  [](C21_UnauthenticatedCallsAreRejected) /\ [][C21_UnauthenticatedCallsWriteNothing]_vars

\* a pending invitation is stored: without a user, accept on its token is
\* unauthorized while getByToken shows it
C21_Witness ==
  \E i \in workspaceInvitations :
    /\ i.acceptedAt = NULL
    /\ acceptResults(workspaceMembers, workspaceInvitations, now, NoUser, i.token)
         = {UNAUTHORIZED}
    /\ Codes(getByTokenResults(workspaces, workspaceInvitations, i.token)) = {"OK"}
    /\ \E w \in workspaces : w.id = i.workspaceId /\ w.updatedAt # w.createdAt

\* ------------------------------------------------------------------------
\* C22: no two user accounts have emails that are equal ignoring case:
\* signup stores the lower-cased email and answers 409 when an account with
\* that email exists, whatever the order and the interleaving of the signup
\* requests.
\* ------------------------------------------------------------------------
C22_SignupChecks ==
  /\ \A u \in BagToSet(accounts) :
       \A k \in 1..Len(u.email) : u.email[k] \notin DOMAIN UpperToLower
  /\ \A name \in NameInputs, email \in SignupEmailInputs, passwordLength \in SignupPasswordInputs :
       (\E u \in BagToSet(accounts) : SameEmailIgnoringCase(u.email, email)) =>
         "201" \notin Codes(signupResults(accounts, name, email, passwordLength))

C22_OneAccountPerEmail ==
  \A u \in BagToSet(accounts) :
    /\ CopiesIn(u, accounts) = 1
    /\ \A v \in BagToSet(accounts) : SameEmailIgnoringCase(u.email, v.email) => u = v

C22_EmailsAreUniqueIgnoringCase == C22_SignupChecks /\ C22_OneAccountPerEmail

\* ------------------------------------------------------------------------
\* C23: isValidWorkspaceSlug rejects every string shorter than 3 or longer
\* than 50 characters, rejects every string that is in the reserved list or
\* contains "--", and accepts every other string of 3 to 50 characters that
\* matches ^[a-z][a-z0-9-]*[a-z0-9]$.
\* ------------------------------------------------------------------------
C23_SlugValidationFollowsTheRule ==
  lastCall.fn = "isValidWorkspaceSlug" =>
    LET slug == lastCall.slug
        n == Len(slug)
        matches == /\ n >= 2
                   /\ slug[1] \in LowerLetters
                   /\ slug[n] \in LowerLetters \cup Digits
                   /\ \A k \in 2..(n - 1) : slug[k] \in LowerLetters \cup Digits \cup {"-"}
        doubled == \E k \in 1..(n - 1) : slug[k] = "-" /\ slug[k + 1] = "-"
    IN /\ (n < 3 \/ n > 50) => lastCall.result = FALSE
       /\ (slug \in RESERVED_SLUGS \/ doubled) => lastCall.result = FALSE
       /\ (n >= 3 /\ n <= 50 /\ matches /\ slug \notin RESERVED_SLUGS /\ ~doubled)
            => lastCall.result = TRUE

\* ------------------------------------------------------------------------
\* C24: parseStripeSignature returns null when the header has no t entry, a
\* t entry whose value is not a number, or no v1 entry; otherwise it returns
\* the value of t as the timestamp and the values of all v1 entries in the
\* order of the header, entries with another key being ignored.
\* ------------------------------------------------------------------------
\* the entries key=value of a header: the key up to the first "=", the value
\* after it
C24_Entries(header) ==
  LET parts == split(header, ",")
      Entry(part) ==
        IF \A k \in 1..Len(part) : part[k] # "=" THEN [key |-> part, value |-> UndefinedValue]
        ELSE LET k == CHOOSE k \in 1..Len(part) :
                        part[k] = "=" /\ \A j \in 1..(k - 1) : part[j] # "="
             IN [key |-> SubSeq(part, 1, k - 1), value |-> SubSeq(part, k + 1, Len(part))]
  IN [k \in 1..Len(parts) |-> Entry(parts[k])]

\* the digits of a value without its minus sign
C24_Unsigned(value) ==
  IF Len(value) > 0 /\ value[1] = "-" THEN SubSeq(value, 2, Len(value)) ELSE value

C24_IsNumber(value) ==
  /\ value # UndefinedValue
  /\ Len(C24_Unsigned(value)) > 0
  /\ \A k \in 1..Len(C24_Unsigned(value)) : C24_Unsigned(value)[k] \in Digits

C24_Number(value) ==
  IF value[1] = "-" THEN 0 - DigitsValue(C24_Unsigned(value)) ELSE DigitsValue(value)

C24_ParsesAsDescribed ==
  lastCall.fn = "parseStripeSignature" =>
    LET entries == C24_Entries(lastCall.header)
        ts == SelectSeq(entries, LAMBDA e : e.key = <<"t">>)
        v1s == SelectSeq(entries, LAMBDA e : e.key = <<"v", "1">>)
    IN IF \/ Len(ts) = 0
          \/ \E k \in 1..Len(ts) : ~C24_IsNumber(ts[k].value)
          \/ Len(v1s) = 0
       THEN lastCall.result = Null
       ELSE /\ lastCall.result # Null
            /\ lastCall.result.timestamp = C24_Number(ts[Len(ts)].value)
            /\ lastCall.result.signatures = [k \in 1..Len(v1s) |-> v1s[k].value]

\* ------------------------------------------------------------------------
\* C25: isTimestampValid(ts, tol) is true exactly when the current time in
\* whole seconds and ts differ by at most tol (300 when tol is left out), in
\* either direction: the boundaries now - tol and now + tol are accepted, one
\* second beyond them is rejected.
\* ------------------------------------------------------------------------
C25_WithinToleranceExactly ==
  lastCall.fn = "isTimestampValid" =>
    LET seconds == CHOOSE n \in 0..lastCall.dateNow :
                     n * 1000 <= lastCall.dateNow /\ lastCall.dateNow < (n + 1) * 1000
        tol == IF lastCall.tolerance = {} THEN 300 ELSE CHOOSE t \in lastCall.tolerance : TRUE
        ts == lastCall.timestamp
    IN lastCall.result = (ts >= seconds - tol /\ ts <= seconds + tol)

\* with the default tolerance, a timestamp exactly 300 seconds before a clock
\* that is not on a whole second
C25_Witness ==
  /\ lastCall.fn = "isTimestampValid"
  /\ lastCall.tolerance = {}
  /\ lastCall.dateNow = 1000999
  /\ lastCall.timestamp = 700
  /\ lastCall.result = TRUE

\* ------------------------------------------------------------------------
\* C26: for every environment checkConfiguration reports one status per
\* integration of the table, in the order of the table: configured when all
\* its variables are set (hold a non-empty value), otherwise missing when the
\* integration is required, otherwise partial when some of its variables are
\* set, otherwise optional; and canStart is true exactly when every required
\* integration is configured.
\* ------------------------------------------------------------------------
C26_IsSet(name) == lastCall.env[name] # "(undefined)" /\ lastCall.env[name] # ""

C26_StatusOf(check) ==
  LET names == {check.envVars[k] : k \in 1..Len(check.envVars)}
  IN IF \A v \in names : C26_IsSet(v) THEN "configured"
     ELSE IF check.required THEN "missing"
     ELSE IF \E v \in names : C26_IsSet(v) THEN "partial"
     ELSE "optional"

C26_OneStatusPerIntegration ==
  lastCall.fn = "checkConfiguration" =>
    /\ Len(lastCall.result.statuses) = Len(configChecks)
    /\ \A k \in 1..Len(configChecks) :
         /\ lastCall.result.statuses[k].name = configChecks[k].name
         /\ lastCall.result.statuses[k].status = C26_StatusOf(configChecks[k])
    /\ lastCall.result.canStart =
         (\A k \in 1..Len(configChecks) :
            configChecks[k].required => C26_StatusOf(configChecks[k]) = "configured")

\* a call whose answer holds all four statuses
C26_Witness ==
  /\ lastCall.fn = "checkConfiguration"
  /\ \A status \in {"configured", "missing", "partial", "optional"} :
       \E k \in 1..Len(configChecks) : lastCall.result.statuses[k].status = status
  /\ lastCall.env["GOOGLE_CLIENT_ID"] = ""
  /\ lastCall.result.canStart = FALSE

\* ------------------------------------------------------------------------
\* C27: a webhook endpoint invokes the billing handler only when the
\* stripe-signature header parses into a timestamp and at least one v1
\* signature and the timestamp is within the tolerance window of the current
\* time; any other request is rejected without the handler being invoked.
\* ------------------------------------------------------------------------
C27_Envelope == parseStripeSignature(CHOOSE header \in lastCall.header : TRUE)

C27_HandlerOnlyGetsValidatedEnvelopes ==
  (lastCall.fn = "webhook" /\ lastCall.handlerInvoked) =>
    /\ lastCall.header # {}
    /\ C27_Envelope # Null
    /\ Len(C27_Envelope.signatures) >= 1
    /\ isTimestampValid(lastCall.dateNow, C27_Envelope.timestamp, DefaultTolerance)

\* ------------------------------------------------------------------------
\* C28: in members.updateRole, members.remove, members.leave,
\* invitations.create, invitations.revoke and invitations.accept every check
\* precedes the first write: a call that is still at a check has written
\* nothing, a step that checks writes nothing, and membership and invitation
\* rows only change in a step of a call that has passed all its checks. So a
\* rejected call leaves the records as they were.
\* ------------------------------------------------------------------------
C28_Procedures == {"updateRole", "remove", "leave", "invite", "revoke", "accept"}

C28_Checks == {"find", "checkMember", "checkInvitation"}

C28_Writes == {"update", "delete", "insert", "insertMember"}

C28_NothingWrittenBeforeAChecks ==
  \A r \in InFlight : (r.proc \in C28_Procedures /\ r.pc \in C28_Checks) => r.writes = 0

C28_ChecksWriteNothing ==
  requests' # requests =>
    /\ \A r \in InFlight :
         (/\ r.proc \in C28_Procedures
          /\ r.pc \in C28_Checks
          /\ CopiesIn(r, requests') < CopiesIn(r, requests)) => db' = db
    /\ BagCardinality(requests') > BagCardinality(requests) => db' = db

C28_OnlyPassedCallsWrite ==
  (workspaces' = workspaces /\ db' # db) =>
    \E r \in InFlight :
      /\ r.proc \in C28_Procedures
      /\ r.pc \in C28_Writes
      /\ CopiesIn(r, requests') < CopiesIn(r, requests)

C28_RejectedCallsChangeNothing ==
  /\ [](C28_NothingWrittenBeforeAChecks)
  /\ [][C28_ChecksWriteNothing]_vars
  /\ [][C28_OnlyPassedCallsWrite]_vars

\* an accept held at its membership check while the caller is already a member:
\* the call is about to be rejected with CONFLICT
C28_Witness ==
  \E r \in InFlight :
    /\ r.proc = "accept"
    /\ r.pc = "checkMember"
    /\ \E m \in BagToSet(workspaceMembers) :
         m.workspaceId = r.workspaceId /\ m.userId = r.user.id

\* ------------------------------------------------------------------------
\* C29: in every reachable state there is at most one membership row for a
\* workspace and a user, for any interleaving of workspace creations and
\* invitations.accept calls, two accepts by the same user included.
\* ------------------------------------------------------------------------
C29_OneMembershipPerWorkspaceAndUser ==
  \A workspaceId \in WorkspaceIds, userId \in UserIds :
    SumCopies(workspaceMembers,
              {m \in DOMAIN workspaceMembers :
                 m.workspaceId = workspaceId /\ m.userId = userId}) <= 1

C30_MayInvite(user, workspaceId, role) ==
  \E m \in BagToSet(workspaceMembers) :
    /\ m.workspaceId = workspaceId
    /\ m.userId = user.id
    /\ m.role = "owner" \/ (m.role = "admin" /\ role # "admin")

C30_Codes ==
  \A user \in Callers, i \in workspaceInvitations, email \in EmailInputs, role \in InputRole :
    toLowerCase(email) = i.email =>
      LET codes == Codes(inviteResults(workspaceMembers, workspaceInvitations, user,
                                       i.workspaceId, email, role))
      IN IF user = NoUser THEN codes = {"UNAUTHORIZED"}
         ELSE IF C30_MayInvite(user, i.workspaceId, role) THEN codes = {"CONFLICT"}
         ELSE codes = {"FORBIDDEN"}

C30_NoSecondRow ==
  workspaceInvitations' # workspaceInvitations =>
    \A new \in workspaceInvitations' \ workspaceInvitations :
      \A old \in workspaceInvitations :
        ~(old.workspaceId = new.workspaceId /\ old.email = new.email /\ old.id # new.id)

====
